---- MODULE Spec2Model ----
(***************************************************************************)
(* A model of the SpaceView scan engine (src-tauri/src/scanner.rs) and of  *)
(* the incremental controller of src-tauri/src/lib.rs.                     *)
(*                                                                         *)
(* Paths are sequences of component names.  A filesystem is a function     *)
(* from the paths that exist to their entries.  An optional value is a     *)
(* sequence of length 0 (None) or 1 (Some).                                *)
(***************************************************************************)
EXTENDS Integers, Sequences, FiniteSets, TLC

(***************************************************************************)
(* Program constants.  The source values are 500, 25, 200_000, 50_000 and  *)
(* 40; the model keeps the comparisons of the code and scales the numbers  *)
(* so that a bounded filesystem reaches both sides of each comparison.     *)
(***************************************************************************)
MAX_CHILDREN == 3
MAX_DEPTH == 2
MAX_TOTAL_NODES == 7
BATCH_SIZE == 4
FULL_RESCAN_LIMIT == 2

CACHE_VERSION == 1

\* 500 MiB in the source; here a few hundred bytes
MAX_CACHE_SIZE == 600

(***************************************************************************)
(* Paths                                                                   *)
(***************************************************************************)
Root == <<"r">>

\* Every path of the model, in the order of PathBuf's Ord (component-wise).
PathList ==
    << <<"r">>,
       <<"r", "a">>,
       <<"r", "a", "f1">>,
       <<"r", "a", "f2">>,
       <<"r", "a", "n">>,
       <<"r", "a", "s">>,
       <<"r", "a", "s", "t">>,
       <<"r", "a", "s", "t", "u">>,
       <<"r", "b">>,
       <<"r", "b", "g">>,
       <<"r", "c">>,
       <<"r", "h">>,
       <<"r", "k">> >>

AllPaths == {PathList[i] : i \in DOMAIN PathList}

DirPaths ==
    { <<"r">>, <<"r", "a">>, <<"r", "a", "s">>, <<"r", "a", "s", "t">>,
      <<"r", "b">>, <<"r", "c">> }

\* The empty path stands for "/", which sorts before every other path.
Rank(p) == IF p = <<>> THEN 0 ELSE CHOOSE i \in DOMAIN PathList : PathList[i] = p

\* Path::parent of a path that has one
Parent(p) == SubSeq(p, 1, Len(p) - 1)

\* path.parent().map(..).unwrap_or(path): "/" has no parent
ParentOrSelf(p) == IF p = <<>> THEN p ELSE Parent(p)

\* Path::starts_with (whole components)
StartsWith(p, base) == Len(base) <= Len(p) /\ SubSeq(p, 1, Len(base)) = base

None == <<>>
Some(x) == <<x>>

(***************************************************************************)
(* Small sequence helpers                                                  *)
(***************************************************************************)
RECURSIVE SeqByRank(_)
SeqByRank(S) ==
    IF S = {} THEN <<>>
    ELSE LET m == CHOOSE x \in S : \A y \in S : Rank(x) <= Rank(y)
         IN  <<m>> \o SeqByRank(S \ {m})

Reverse(s) == [i \in 1..Len(s) |-> s[Len(s) + 1 - i]]

\* The orders in which a concurrent map or a parallel walk may hand out its
\* keys: ascending and descending path order stand for all of them.
IterOrders == {"asc", "desc"}

Ordered(S, ord) == IF ord = "asc" THEN SeqByRank(S) ELSE Reverse(SeqByRank(S))

Range(s) == {s[i] : i \in DOMAIN s}

(***************************************************************************)
(* Filesystem entries: dir flag, byte length and inode of a file           *)
(***************************************************************************)
\* Length of the file behind an inode (an inode is named by the rank of the
\* first path that links it).
LenOfIno(ino) ==
    CASE ino = 3 -> 5
      [] ino = 4 -> 1
      [] ino = 5 -> 4
      [] ino = 8 -> 4
      [] ino = 10 -> 2
      [] ino = 12 -> 3
      [] ino = 13 -> 6
      [] OTHER -> 0

DirEntry == [dir |-> TRUE, len |-> 0, ino |-> 0]
FileEntry(ino) == [dir |-> FALSE, len |-> LenOfIno(ino), ino |-> ino]

(***************************************************************************)
(* Scanner::scan, phase 1: the walk callback (scanner.rs 298-396)          *)
(***************************************************************************)
EmptyWalk == [nodes |-> << >>, seen |-> {}, files |-> 0, dirs |-> 0, total |-> 0]

\* The mutant of IsDuplicate: the inode set is never consulted.
IsDuplicateNoDedup(seen, e) == FALSE

\* scanner.rs 341-350: a file whose (device, inode) is already in the set
IsDuplicate(seen, e) == ~e.dir /\ e.ino \in seen

\* scanner.rs 344: DashSet::insert of the file's (device, inode)
InodeInsert(st, e) == [st EXCEPT !.seen = IF e.dir THEN @ ELSE @ \cup {e.ino}]

\* scanner.rs 352-382: the counters and the node store, once is_duplicate is known
StoreEntry(st, p, e, is_duplicate) ==
    LET file_size == IF e.dir THEN 0 ELSE e.len
        stored_size == IF is_duplicate THEN 0 ELSE file_size
        node == [size |-> stored_size, is_dir |-> e.dir, children_paths |-> <<>>]
    IN  [st EXCEPT
            !.nodes = [q \in (DOMAIN st.nodes) \cup {p} |->
                          IF q = p THEN node ELSE st.nodes[q]],
            !.files = IF e.dir THEN @ ELSE @ + 1,
            !.dirs  = IF e.dir THEN @ + 1 ELSE @,
            !.total = IF e.dir \/ is_duplicate THEN @ ELSE @ + file_size]

\* One whole callback (scanner.rs 298-396)
VisitEntry(st, p, e) == StoreEntry(InodeInsert(st, e), p, e, IsDuplicate(st.seen, e))

\* The entries a walk of root_path yields: the root and everything below it.
WalkSet(fsys, root_path) == {p \in DOMAIN fsys : StartsWith(p, root_path)}

RECURSIVE VisitAll(_, _, _, _)
VisitAll(st, fsys, order, i) ==
    IF i > Len(order) THEN st
    ELSE VisitAll(VisitEntry(st, order[i], fsys[order[i]]), fsys, order, i + 1)

\* A whole walk (scanner.rs 287-397) that visits the entries in order ord.
WalkAll(fsys, root_path, ord) ==
    VisitAll(EmptyWalk, fsys, Ordered(WalkSet(fsys, root_path), ord), 1)

(***************************************************************************)
(* Phase 2: parent-child relations (scanner.rs 445-495)                    *)
(***************************************************************************)
\* The (child, parent) pairs of the store
RelationPairs(nodes) == {p \in DOMAIN nodes : Len(p) > 1 /\ Parent(p) \in DOMAIN nodes}

\* Every path is appended to its parent's children, in the map's iteration order.
LinkRelations(nodes, ord) ==
    [p \in DOMAIN nodes |->
        IF nodes[p].is_dir
        THEN [nodes[p] EXCEPT !.children_paths =
                 Ordered({c \in RelationPairs(nodes) : Parent(c) = p}, ord)]
        ELSE nodes[p]]

\* Full batches drained inside the loop: each is followed by a cancel check.
FullBatches(nodes) == Cardinality(RelationPairs(nodes)) \div BATCH_SIZE

(***************************************************************************)
(* Phase 3: bottom-up sizes (scanner.rs 621-653)                           *)
(***************************************************************************)
RECURSIVE SubtreeSize(_, _)
RECURSIVE SumSizes(_, _, _)
SumSizes(nodes, kids, i) ==
    IF i > Len(kids) THEN 0
    ELSE SubtreeSize(nodes, kids[i]) + SumSizes(nodes, kids, i + 1)

\* The size the post-order pass leaves on a node
SubtreeSize(nodes, p) ==
    IF nodes[p].is_dir THEN SumSizes(nodes, nodes[p].children_paths, 1)
    ELSE nodes[p].size

calc_sizes_bottomup_dashmap(nodes, root_path) ==
    [p \in DOMAIN nodes |->
        IF nodes[p].is_dir /\ StartsWith(p, root_path) /\ root_path \in DOMAIN nodes
        THEN [nodes[p] EXCEPT !.size = SubtreeSize(nodes, p)]
        ELSE nodes[p]]

(***************************************************************************)
(* Phase 4: the exported tree (scanner.rs 655-759)                         *)
(***************************************************************************)
OtherName == "__other__"

\* scanner.rs 667-678
FileLeaf(p, n) ==
    [id |-> p, path |-> p, size |-> n.size, is_dir |-> FALSE, children |-> <<>>,
     file_count |-> 0, dir_count |-> 0]

\* The mutant of OtherNode: the bucket forgets the suppressed sizes.
OtherNodeNoSize(p, acc) ==
    [id |-> Append(p, OtherName), path |-> p, size |-> 0, is_dir |-> TRUE,
     children |-> <<>>, file_count |-> acc.other_file_count,
     dir_count |-> acc.other_dir_count]

\* scanner.rs 725-736: id is "<path>/__other__", path is the parent's own path
OtherNode(p, acc) ==
    [id |-> Append(p, OtherName), path |-> p, size |-> acc.other_size, is_dir |-> TRUE,
     children |-> <<>>, file_count |-> acc.other_file_count,
     dir_count |-> acc.other_dir_count]

\* scanner.rs 692: stable sort, descending size
RECURSIVE InsertDesc(_, _, _)
InsertDesc(nodes, sorted, p) ==
    IF sorted = <<>> THEN <<p>>
    ELSE IF nodes[Head(sorted)].size >= nodes[p].size
         THEN <<Head(sorted)>> \o InsertDesc(nodes, Tail(sorted), p)
         ELSE <<p>> \o sorted

RECURSIVE SortDescFrom(_, _, _, _)
SortDescFrom(nodes, kids, i, sorted) ==
    IF i > Len(kids) THEN sorted
    ELSE SortDescFrom(nodes, kids, i + 1, InsertDesc(nodes, sorted, kids[i]))

\* The mutant of SortBySizeDesc: the children keep their insertion order.
SortBySizeDescUnsorted(nodes, kids) == kids

SortBySizeDesc(nodes, kids) == SortDescFrom(nodes, kids, 1, <<>>)

\* The mutant of BudgetExhausted: the node counter is never compared.
BudgetExhaustedNever(node_count) == FALSE

\* scanner.rs 657 and 701: the global node counter against MAX_TOTAL_NODES
BudgetExhausted(node_count) == node_count >= MAX_TOTAL_NODES

\* scanner.rs 701-702 (i counts from 1 here, from 0 in the code)
MayExpand(i, depth, node_count) ==
    i <= MAX_CHILDREN /\ depth < MAX_DEPTH /\ ~BudgetExhausted(node_count)

\* scanner.rs 706-720: a declined child goes to the "other" bucket
AddOther(acc, n) ==
    [acc EXCEPT !.other_size = @ + n.size,
                !.other_file_count = IF n.is_dir THEN @ ELSE @ + 1,
                !.other_dir_count = IF n.is_dir THEN @ + 1 ELSE @]

\* scanner.rs 739-744
ChildFileCount(children, i) == IF children[i].is_dir THEN children[i].file_count ELSE 1
ChildDirCount(children, i) == IF children[i].is_dir THEN 1 + children[i].dir_count ELSE 0

RECURSIVE SumOver(_, _)
SumOver(f, n) == IF n = 0 THEN 0 ELSE f[n] + SumOver(f, n - 1)

CountFiles(children) ==
    SumOver([i \in 1..Len(children) |-> ChildFileCount(children, i)], Len(children))
CountDirs(children) ==
    SumOver([i \in 1..Len(children) |-> ChildDirCount(children, i)], Len(children))

RECURSIVE build_tree_dashmap(_, _, _, _)
RECURSIVE BuildChildren(_, _, _, _, _)

\* The loop of scanner.rs 699-722 from child i on
BuildChildren(nodes, meta, i, depth, acc) ==
    IF i > Len(meta) THEN acc
    ELSE IF MayExpand(i, depth, acc.count)
         THEN LET r == build_tree_dashmap(nodes, meta[i], depth + 1, acc.count)
              IN  IF r.node # None
                  THEN BuildChildren(nodes, meta, i + 1, depth,
                           [acc EXCEPT !.children = Append(@, r.node[1]),
                                       !.count = r.count])
                  ELSE BuildChildren(nodes, meta, i + 1, depth,
                           AddOther([acc EXCEPT !.count = r.count], nodes[meta[i]]))
         ELSE BuildChildren(nodes, meta, i + 1, depth, AddOther(acc, nodes[meta[i]]))

\* Returns the node (None when the budget is used up) and the node counter.
build_tree_dashmap(nodes, path, depth, node_count) ==
    IF BudgetExhausted(node_count) \/ path \notin DOMAIN nodes
    THEN [node |-> None, count |-> node_count]
    ELSE IF ~nodes[path].is_dir
    THEN [node |-> Some(FileLeaf(path, nodes[path])), count |-> node_count + 1]
    ELSE LET kids == SelectSeq(nodes[path].children_paths, LAMBDA c : c \in DOMAIN nodes)
             meta == SortBySizeDesc(nodes, kids)
             acc0 == [children |-> <<>>, other_size |-> 0, other_file_count |-> 0,
                      other_dir_count |-> 0, count |-> node_count + 1]
             acc  == BuildChildren(nodes, meta, 1, depth, acc0)
             children == IF acc.other_file_count + acc.other_dir_count > 0
                         THEN Append(acc.children, OtherNode(path, acc))
                         ELSE acc.children
         IN  [node |-> Some([id |-> path, path |-> path, size |-> nodes[path].size,
                             is_dir |-> TRUE, children |-> children,
                             file_count |-> CountFiles(children),
                             dir_count |-> CountDirs(children)]),
              count |-> acc.count]

\* Phases 2-4 on the store a walk left: the tree Scanner::scan returns.
ProjectTree(nodes, root_path, ord) ==
    build_tree_dashmap(
        calc_sizes_bottomup_dashmap(LinkRelations(nodes, ord), root_path),
        root_path, 0, 0).node

\* An undisturbed scan of root_path
ColdScan(fsys, root_path, ord) == ProjectTree(WalkAll(fsys, root_path, ord).nodes, root_path, ord)

(***************************************************************************)
(* Reading an exported tree                                                *)
(***************************************************************************)
RECURSIVE Subtrees(_)
Subtrees(t) == {t} \cup UNION {Subtrees(t.children[i]) : i \in DOMAIN t.children}

\* The synthetic overflow node: its id is not its path.
IsOther(n) == n.id # n.path

ConcreteNodes(t) == {n \in Subtrees(t) : ~IsOther(n)}

RECURSIVE NodeCount(_)
NodeCount(t) ==
    1 + SumOver([i \in 1..Len(t.children) |-> NodeCount(t.children[i])], Len(t.children))

RECURSIVE ConcreteCount(_)
ConcreteCount(t) ==
    (IF IsOther(t) THEN 0 ELSE 1)
    + SumOver([i \in 1..Len(t.children) |-> ConcreteCount(t.children[i])], Len(t.children))

ChildSizeSum(n) == SumOver([i \in 1..Len(n.children) |-> n.children[i].size], Len(n.children))

(***************************************************************************)
(* lib.rs: the pure helpers of the incremental controller                  *)
(***************************************************************************)
\* fs::metadata(path): "/" always exists and is a directory
IsDirOnDisk(fsys, p) == p = <<>> \/ (p \in DOMAIN fsys /\ fsys[p].dir)

\* lib.rs 228-240: the directory to rescan for one dirty path
DirtyDirOf(fsys, p) == IF IsDirOnDisk(fsys, p) THEN p ELSE ParentOrSelf(p)

\* lib.rs 249-254: drop every path that starts with one already kept
RECURSIVE DropDescendants(_, _, _)
DropDescendants(dirs, i, filtered) ==
    IF i > Len(dirs) THEN filtered
    ELSE IF \E j \in DOMAIN filtered : StartsWith(dirs[i], filtered[j])
         THEN DropDescendants(dirs, i + 1, filtered)
         ELSE DropDescendants(dirs, i + 1, Append(filtered, dirs[i]))

\* The mutant of coalesce_dirty_dirs: the descendants of a dirty directory stay.
coalesce_dirty_dirs_all(dirty, scan_root, fsys) ==
    SeqByRank({DirtyDirOf(fsys, p) : p \in {q \in dirty : StartsWith(q, scan_root)}})

\* lib.rs 220-257; sort and dedup make the list the rank order of a set
coalesce_dirty_dirs(dirty, scan_root, fsys) ==
    DropDescendants(
        SeqByRank({DirtyDirOf(fsys, p) : p \in {q \in dirty : StartsWith(q, scan_root)}}),
        1, <<>>)

\* lib.rs 259-275
recompute_dir_stats(node) ==
    [size  |-> ChildSizeSum(node),
     files |-> CountFiles(node.children),
     dirs  |-> CountDirs(node.children)]

\* lib.rs 277-290
RECURSIVE node_exists(_, _)
node_exists(root, target_path) ==
    \/ root.path = target_path
    \/ /\ root.is_dir
       /\ \E i \in DOMAIN root.children : node_exists(root.children[i], target_path)

\* The mutant of WithStats: the ancestors keep their old size and counts.
WithStatsStale(root, children) == [root EXCEPT !.children = children]

\* lib.rs 324-329
WithStats(root, children) ==
    LET r == [root EXCEPT !.children = children]
        st == recompute_dir_stats(r)
    IN  [r EXCEPT !.size = st.size, !.file_count = st.files, !.dir_count = st.dirs]

\* The bytes of a file name
CompBytes(c) ==
    CASE c = "a" -> <<97>> [] c = "b" -> <<98>> [] c = "c" -> <<99>>
      [] c = "g" -> <<103>> [] c = "h" -> <<104>> [] c = "k" -> <<107>>
      [] c = "n" -> <<110>> [] c = "r" -> <<114>> [] c = "s" -> <<115>>
      [] c = "t" -> <<116>> [] c = "u" -> <<117>>
      [] c = "f1" -> <<102, 49>> [] c = "f2" -> <<102, 50>>
      [] c = "ab" -> <<97, 98>>
      [] OTHER -> <<95, 95, 111, 116, 104, 101, 114, 95, 95>>

\* path.to_string_lossy(): "/r/a/f1"
RECURSIVE PathStr(_)
PathStr(p) == IF p = <<>> THEN <<>> ELSE PathStr(Parent(p)) \o <<47>> \o CompBytes(p[Len(p)])

\* str::starts_with
IsStrPrefix(pre, str) == Len(pre) <= Len(str) /\ SubSeq(str, 1, Len(pre)) = pre

\* The mutant of HasDirPrefix: the two strings change places.
HasDirPrefixSwapped(target_path, child_path) ==
    IsStrPrefix(PathStr(target_path) \o <<47>>, PathStr(child_path))

\* lib.rs 311: target_path.starts_with(&format!("{}/", child.path))
HasDirPrefix(target_path, child_path) ==
    IsStrPrefix(PathStr(child_path) \o <<47>>, PathStr(target_path))

\* lib.rs 292-330
RECURSIVE replace_subtree(_, _, _)
replace_subtree(root, target_path, new_subtree) ==
    IF root.path = target_path THEN new_subtree
    ELSE IF ~root.is_dir THEN root
    ELSE LET hit(c) == c.path = target_path
             below(c) == c.path # target_path /\ HasDirPrefix(target_path, c.path)
             changed == \E i \in DOMAIN root.children :
                            hit(root.children[i]) \/ below(root.children[i])
             children == [i \in DOMAIN root.children |->
                            IF hit(root.children[i]) THEN new_subtree
                            ELSE IF below(root.children[i])
                                 THEN replace_subtree(root.children[i], target_path,
                                                      new_subtree)
                                 ELSE root.children[i]]
         IN  IF ~changed THEN root ELSE WithStats(root, children)

\* The mutant of FullRescanRule: the list length is compared with >=.
FullRescanRuleOffByOne(dirty_dirs, root_path) ==
    Len(dirty_dirs) >= FULL_RESCAN_LIMIT \/ \E i \in DOMAIN dirty_dirs : dirty_dirs[i] = root_path

\* lib.rs 380
FullRescanRule(dirty_dirs, root_path) ==
    Len(dirty_dirs) > FULL_RESCAN_LIMIT \/ \E i \in DOMAIN dirty_dirs : dirty_dirs[i] = root_path

\* lib.rs 414-426: a dirty directory missing from the tree gives way to its parent
EffectiveDirs(tree, dirty_dirs, root_path) ==
    SeqByRank({IF node_exists(tree, dirty_dirs[i]) THEN dirty_dirs[i]
               ELSE IF dirty_dirs[i] # <<>> THEN Parent(dirty_dirs[i])
               ELSE root_path : i \in DOMAIN dirty_dirs})

\* The mutant of FlagAfterSwap: the flag is toggled instead of set.
FlagAfterSwapToggled(old) == ~old

\* lib.rs 523: the value scan_in_progress holds after swap(true)
FlagAfterSwap(old) == TRUE

\* The mutant of ScanResultOf: a scan that returned None is reported as an error.
ScanResultErrOnNull(r) == IF r = None THEN <<"err", "cancelled">> ELSE <<"ok", r>>

\* lib.rs 561-563, 594: the command returns Ok(what the scan returned)
ScanResultOf(r) == <<"ok", r>>

\* The mutant of SwapAcquires: a plain store, every caller goes on.
SwapAcquiresAlways(old) == TRUE

\* lib.rs 334, 523: scan_in_progress.swap(true) returned false
SwapAcquires(old) == ~old

(***************************************************************************)
(* cache.rs: the record on disk.  bincode writes fixed-width little-endian *)
(* integers, a u64 length before strings and sequences, one tag byte       *)
(* before the payload of an Option; a field skipped by                     *)
(* skip_serializing_if writes nothing, and the reader reads every field.   *)
(***************************************************************************)
\* A u64 that does not fit three bytes; every such value reads as this one
Huge == 16777216

U64Bytes(v) == <<v % 256, (v \div 256) % 256, (v \div 65536) % 256, 0, 0, 0, 0, 0>>

U32Bytes(v) == <<v % 256, (v \div 256) % 256, (v \div 65536) % 256, 0>>

BoolByte(b) == <<IF b THEN 1 ELSE 0>>

StrBytes(s) == U64Bytes(Len(s)) \o s

RECURSIVE Concat(_)
Concat(ss) == IF ss = <<>> THEN <<>> ELSE Head(ss) \o Concat(Tail(ss))

\* The mutant of OptBytes: an absent value is written as the tag 0.
OptBytesTagged(opt, payload) == IF opt = None THEN <<0>> ELSE <<1>> \o payload

\* scanner.rs 116, 120: skip_serializing_if = "Option::is_none"
OptBytes(opt, payload) == IF opt = None THEN <<>> ELSE <<1>> \o payload

\* bincode::serialize of a FileNode (scanner.rs 109-122), field by field
RECURSIVE EncNode(_)
EncNode(n) ==
    StrBytes(n.id) \o StrBytes(n.name) \o StrBytes(n.path) \o U64Bytes(n.size)
    \o BoolByte(n.is_dir)
    \o U64Bytes(Len(n.children))
    \o Concat([i \in DOMAIN n.children |-> EncNode(n.children[i])])
    \o OptBytes(n.extension, IF n.extension = None THEN <<>> ELSE StrBytes(n.extension[1]))
    \o U64Bytes(n.file_count) \o U64Bytes(n.dir_count)
    \o OptBytes(n.modified_at, IF n.modified_at = None THEN <<>> ELSE U64Bytes(n.modified_at[1]))

\* bincode::serialize of a CachedScan (cache.rs 15-31, 98)
EncScan(c) ==
    U32Bytes(c.version) \o StrBytes(c.scan_path) \o U64Bytes(c.scanned_at)
    \o U64Bytes(c.total_files) \o U64Bytes(c.total_dirs) \o U64Bytes(c.total_size)
    \o EncNode(c.root)

Fail == [ok |-> FALSE, val |-> 0, pos |-> 0]

Got(v, pos) == [ok |-> TRUE, val |-> v, pos |-> pos]

RdU64(b, pos) ==
    IF pos + 7 > Len(b) THEN Fail
    ELSE IF \E i \in 3..7 : b[pos + i] # 0 THEN Got(Huge, pos + 8)
    ELSE Got(b[pos] + 256 * b[pos + 1] + 65536 * b[pos + 2], pos + 8)

RdU32(b, pos) ==
    IF pos + 3 > Len(b) THEN Fail
    ELSE IF b[pos + 3] # 0 THEN Got(Huge, pos + 4)
    ELSE Got(b[pos] + 256 * b[pos + 1] + 65536 * b[pos + 2], pos + 4)

\* bincode rejects a bool byte other than 0 and 1
RdBool(b, pos) ==
    IF pos > Len(b) \/ b[pos] \notin {0, 1} THEN Fail ELSE Got(b[pos] = 1, pos + 1)

\* A length, then that many bytes of UTF-8 (here: of ASCII)
RdStr(b, pos) ==
    LET n == RdU64(b, pos)
    IN  IF ~n.ok \/ n.pos + n.val - 1 > Len(b) THEN Fail
        ELSE IF \E i \in n.pos..(n.pos + n.val - 1) : b[i] >= 128 THEN Fail
        ELSE Got(SubSeq(b, n.pos, n.pos + n.val - 1), n.pos + n.val)

RdOptStr(b, pos) ==
    IF pos > Len(b) \/ b[pos] \notin {0, 1} THEN Fail
    ELSE IF b[pos] = 0 THEN Got(None, pos + 1)
    ELSE LET s == RdStr(b, pos + 1) IN IF s.ok THEN Got(Some(s.val), s.pos) ELSE Fail

RdOptU64(b, pos) ==
    IF pos > Len(b) \/ b[pos] \notin {0, 1} THEN Fail
    ELSE IF b[pos] = 0 THEN Got(None, pos + 1)
    ELSE LET v == RdU64(b, pos + 1) IN IF v.ok THEN Got(Some(v.val), v.pos) ELSE Fail

RECURSIVE RdNode(_, _)
RECURSIVE RdNodes(_, _, _, _)
\* The elements of a Vec<FileNode>; a count beyond the bytes left ends in EOF
RdNodes(b, pos, count, acc) ==
    IF count = 0 THEN Got(acc, pos)
    ELSE IF count > Len(b) - pos + 1 THEN Fail
    ELSE LET n == RdNode(b, pos)
         IN  IF n.ok THEN RdNodes(b, n.pos, count - 1, Append(acc, n.val)) ELSE Fail

\* bincode::deserialize of a FileNode: every field of the struct, in order
RdNode(b, pos) ==
    LET id == RdStr(b, pos)
        name == RdStr(b, id.pos)
        path == RdStr(b, name.pos)
        size == RdU64(b, path.pos)
        dir == RdBool(b, size.pos)
        len == RdU64(b, dir.pos)
        kids == RdNodes(b, len.pos, len.val, <<>>)
        ext == RdOptStr(b, kids.pos)
        fc == RdU64(b, ext.pos)
        dc == RdU64(b, fc.pos)
        mod == RdOptU64(b, dc.pos)
    IN  IF ~id.ok THEN Fail ELSE IF ~name.ok THEN Fail ELSE IF ~path.ok THEN Fail
        ELSE IF ~size.ok THEN Fail ELSE IF ~dir.ok THEN Fail ELSE IF ~len.ok THEN Fail
        ELSE IF ~kids.ok THEN Fail ELSE IF ~ext.ok THEN Fail ELSE IF ~fc.ok THEN Fail
        ELSE IF ~dc.ok THEN Fail ELSE IF ~mod.ok THEN Fail
        ELSE Got([id |-> id.val, name |-> name.val, path |-> path.val, size |-> size.val,
                  is_dir |-> dir.val, children |-> kids.val, extension |-> ext.val,
                  file_count |-> fc.val, dir_count |-> dc.val, modified_at |-> mod.val],
                 mod.pos)

\* bincode::deserialize_from of a CachedScan (cache.rs 131)
RdScan(b) ==
    LET ver == RdU32(b, 1)
        sp == RdStr(b, ver.pos)
        at == RdU64(b, sp.pos)
        tf == RdU64(b, at.pos)
        td == RdU64(b, tf.pos)
        ts == RdU64(b, td.pos)
        root == RdNode(b, ts.pos)
    IN  IF ~ver.ok THEN Fail ELSE IF ~sp.ok THEN Fail ELSE IF ~at.ok THEN Fail
        ELSE IF ~tf.ok THEN Fail ELSE IF ~td.ok THEN Fail ELSE IF ~ts.ok THEN Fail
        ELSE IF ~root.ok THEN Fail
        ELSE Got([version |-> ver.val, scan_path |-> sp.val, scanned_at |-> at.val,
                  total_files |-> tf.val, total_dirs |-> td.val, total_size |-> ts.val,
                  root |-> root.val], root.pos)

\* cache.rs 218-234
RECURSIVE count_items(_)
count_items(node) ==
    IF ~node.is_dir THEN [files |-> 1, dirs |-> 0]
    ELSE [files |-> SumOver([i \in DOMAIN node.children |->
                                count_items(node.children[i]).files], Len(node.children)),
          dirs |-> 1 + SumOver([i \in DOMAIN node.children |->
                                count_items(node.children[i]).dirs], Len(node.children))]

\* cache.rs 87-95
CachedScanOf(scan_path, root, now) ==
    [version |-> CACHE_VERSION, scan_path |-> scan_path, scanned_at |-> now,
     total_files |-> count_items(root).files, total_dirs |-> count_items(root).dirs,
     total_size |-> root.size, root |-> root]

\* The mutant of TooLarge: the size guard is gone.
TooLargeNever(n) == FALSE

\* cache.rs 102
TooLarge(n) == n > MAX_CACHE_SIZE

\* cache.rs 69-116: the bytes of the cache file after the call, and its result
save_to_cache(file, scan_path, root, now) ==
    LET serialized == EncScan(CachedScanOf(scan_path, root, now))
    IN  IF TooLarge(Len(serialized))
        THEN [file |-> file, result |-> <<"err", "too large">>]
        ELSE [file |-> Some(serialized), result |-> <<"ok">>]

\* cache.rs 119-148
load_from_cache(file) ==
    IF file = None THEN <<"err", "not found">>
    ELSE LET d == RdScan(file[1])
         IN  IF ~d.ok THEN <<"err", "deserialize">>
             ELSE IF d.val.version # CACHE_VERSION THEN <<"err", "version">>
             ELSE <<"ok", d.val>>

(***************************************************************************)
(* The exported tree as the FileNode values that reach the cache           *)
(***************************************************************************)
RECURSIVE Digits(_)
Digits(k) == IF k < 10 THEN <<48 + k>> ELSE Digits(k \div 10) \o <<48 + (k % 10)>>

\* scanner.rs 727: "<{} more items>"
OtherNameStr(k) ==
    <<60>> \o Digits(k) \o <<32, 109, 111, 114, 101, 32, 105, 116, 101, 109, 115, 62>>

\* The modification time the walk reads for a file (scanner.rs 329-333)
MTIME == 9

\* The fields of FileNode the rest of the model leaves out: the name, the
\* extension (none of the names has a dot) and modified_at (files only)
RECURSIVE ToFileNode(_)
ToFileNode(t) ==
    [id |-> PathStr(t.id),
     name |-> IF IsOther(t) THEN OtherNameStr(t.file_count + t.dir_count)
              ELSE CompBytes(t.path[Len(t.path)]),
     path |-> PathStr(t.path), size |-> t.size, is_dir |-> t.is_dir,
     children |-> [i \in DOMAIN t.children |-> ToFileNode(t.children[i])],
     extension |-> None, file_count |-> t.file_count, dir_count |-> t.dir_count,
     modified_at |-> IF t.is_dir THEN None ELSE Some(MTIME)]

\* The clock readings of cache.rs 78-81
Times == {1, 2}

\* The cache file of a record the controller keeps
CacheFileOf(c, scan_path) ==
    IF c = None THEN None
    ELSE Some(EncScan([CachedScanOf(PathStr(scan_path), ToFileNode(c[1].root), 1)
                          EXCEPT !.version = c[1].version]))

\* The layout in which every optional field has its tag byte, the one the
\* derived Deserialize reads (a record that load_from_cache accepts)
RECURSIVE EncNodeFull(_)
EncNodeFull(n) ==
    StrBytes(n.id) \o StrBytes(n.name) \o StrBytes(n.path) \o U64Bytes(n.size)
    \o BoolByte(n.is_dir)
    \o U64Bytes(Len(n.children))
    \o Concat([i \in DOMAIN n.children |-> EncNodeFull(n.children[i])])
    \o OptBytesTagged(n.extension,
                      IF n.extension = None THEN <<>> ELSE StrBytes(n.extension[1]))
    \o U64Bytes(n.file_count) \o U64Bytes(n.dir_count)
    \o OptBytesTagged(n.modified_at,
                      IF n.modified_at = None THEN <<>> ELSE U64Bytes(n.modified_at[1]))

EncScanFull(c) ==
    U32Bytes(c.version) \o StrBytes(c.scan_path) \o U64Bytes(c.scanned_at)
    \o U64Bytes(c.total_files) \o U64Bytes(c.total_dirs) \o U64Bytes(c.total_size)
    \o EncNodeFull(c.root)

(***************************************************************************)
(* The cache on its own: saves and loads of a bounded family of trees      *)
(***************************************************************************)
VARIABLES cfiles, csaved, cres

cacheVars == <<cfiles, csaved, cres>>

\* "/p" and "/q"; their cache keys (cache.rs 41-46) differ
CachePaths == {<<47, 112>>, <<47, 113>>}

CLeaf(ext, mod) ==
    [id |-> <<47, 112, 47, 97>>, name |-> <<97>>, path |-> <<47, 112, 47, 97>>, size |-> 5,
     is_dir |-> FALSE, children |-> <<>>, extension |-> ext, file_count |-> 0,
     dir_count |-> 0, modified_at |-> mod]

CLeaves == {CLeaf(ext, mod) : ext \in {None, Some(<<116>>)}, mod \in {None, Some(MTIME)}}

FullLeaf == CLeaf(Some(<<116>>), Some(MTIME))

CDir(kids) ==
    [id |-> <<47, 112>>, name |-> <<112>>, path |-> <<47, 112>>,
     size |-> SumOver([i \in DOMAIN kids |-> kids[i].size], Len(kids)),
     is_dir |-> TRUE, children |-> kids, extension |-> None, file_count |-> Len(kids),
     dir_count |-> 0, modified_at |-> None]

CKids == {<<>>} \cup {<<k>> : k \in {FullLeaf, CLeaf(None, Some(MTIME))}}
               \cup {<<FullLeaf, k>> : k \in {FullLeaf, CLeaf(None, Some(MTIME))}}

Padded(k) == [FullLeaf EXCEPT !.name = [i \in 1..k |-> 120]]

FullLeafBytes == Len(EncScan(CachedScanOf(<<47, 112>>, FullLeaf, 1)))

\* A file whose record is exactly as long as the size guard allows, and one
\* whose record is one byte longer
EdgeLeaf == Padded(MAX_CACHE_SIZE - FullLeafBytes + 1)

BigLeaf == Padded(MAX_CACHE_SIZE - FullLeafBytes + 2)

CacheTrees == CLeaves \cup {CDir(kids) : kids \in CKids} \cup {EdgeLeaf, BigLeaf}

\* A record written by a build with another format version
StaleFile(P) == Some(EncScan([CachedScanOf(P, FullLeaf, 1) EXCEPT !.version = 0]))

CacheIdle ==
    /\ cfiles = [P \in CachePaths |-> None]
    /\ csaved = [P \in CachePaths |-> None]
    /\ cres = [op |-> "none"]

InitCache ==
    /\ cfiles \in [CachePaths -> {None}] \cup {[P \in CachePaths |-> StaleFile(P)]}
    /\ csaved = [P \in CachePaths |-> None]
    /\ cres = [op |-> "none"]

\* save_to_cache(P, T)
C_Save(P, T, now) ==
    LET r == save_to_cache(cfiles[P], P, T, now)
    IN  /\ cfiles' = [cfiles EXCEPT ![P] = r.file]
        /\ csaved' = IF r.result = <<"ok">> THEN [csaved EXCEPT ![P] = Some(T)] ELSE csaved
        /\ cres' = [op |-> "save", path |-> P, tree |-> T, now |-> now, result |-> r.result]

\* load_from_cache(P)
C_Load(P) ==
    /\ cres' = [op |-> "load", path |-> P, result |-> load_from_cache(cfiles[P])]
    /\ UNCHANGED <<cfiles, csaved>>

(***************************************************************************)
(* scanner.rs: the progress channel of one scan, its reporter thread and   *)
(* the scan-progress events the two threads emit                           *)
(***************************************************************************)
VARIABLES pmain, pcount, pchan, ptx, prep, pcancel, pevents

progVars == <<pmain, pcount, pchan, ptx, prep, pcancel, pevents>>

\* bounded(100) in the source
PROGRESS_CAP == 1

\* counter.is_multiple_of(1000) in the source
PROGRESS_EVERY == 2

\* Entries the walk of one scan visits
MaxItems == 4

ProgIdle ==
    /\ pmain = "off" /\ pcount = 0 /\ pchan = <<>> /\ ptx = FALSE /\ prep = "off"
    /\ pcancel = FALSE /\ pevents = <<>>

\* scanner.rs 185-231: reset, the channel, the reporter thread spawned
InitProgress ==
    /\ pmain = "walk" /\ pcount = 0 /\ pchan = <<>> /\ ptx = TRUE /\ prep = "recv"
    /\ pcancel = FALSE /\ pevents = <<>>

Event(phase, complete) == [phase |-> phase, is_complete |-> complete]

\* try_send: a full channel drops the message
TrySend(chan, msg) == IF Len(chan) < PROGRESS_CAP THEN Append(chan, msg) ELSE chan

\* scanner.rs 384-393: the walk callback counts the entry and reports every
\* PROGRESS_EVERY-th one
P_Item ==
    /\ pmain = "walk" /\ pcount < MaxItems
    /\ pcount' = pcount + 1
    /\ pchan' = IF (pcount + 1) % PROGRESS_EVERY = 0 THEN TrySend(pchan, pcount + 1)
                ELSE pchan
    /\ UNCHANGED <<pmain, ptx, prep, pcancel, pevents>>

\* scanner.rs 399-400: the walk is over, the sender is dropped
P_WalkEnd ==
    /\ pmain = "walk"
    /\ pmain' = "walked" /\ ptx' = FALSE
    /\ UNCHANGED <<pcount, pchan, prep, pcancel, pevents>>

\* scanner.rs 427-437: the cancel check, then the event of phase 2
P_Relations ==
    /\ pmain = "walked"
    /\ IF pcancel THEN pmain' = "done" /\ UNCHANGED pevents
       ELSE pmain' = "relations" /\ pevents' = Append(pevents, Event("relations", FALSE))
    /\ UNCHANGED <<pcount, pchan, ptx, prep, pcancel>>

\* scanner.rs 458-517: phase 2, which looks at the flag after each full batch
\* only, then the event of phase 3
P_Sizes ==
    /\ pmain = "relations"
    /\ \E full_batch \in BOOLEAN :
          IF full_batch /\ pcancel THEN pmain' = "done" /\ UNCHANGED pevents
          ELSE pmain' = "sizes" /\ pevents' = Append(pevents, Event("sizes", FALSE))
    /\ UNCHANGED <<pcount, pchan, ptx, prep, pcancel>>

\* scanner.rs 520-532: phase 3, then the event of phase 4
P_Tree ==
    /\ pmain = "sizes"
    /\ pmain' = "tree" /\ pevents' = Append(pevents, Event("tree", FALSE))
    /\ UNCHANGED <<pcount, pchan, ptx, prep, pcancel>>

\* scanner.rs 536-618: phase 4, then the closing event
P_Complete ==
    /\ pmain = "tree"
    /\ pmain' = "done" /\ pevents' = Append(pevents, Event("complete", TRUE))
    /\ UNCHANGED <<pcount, pchan, ptx, prep, pcancel>>

\* scanner.rs 217: recv() hands out what is buffered, also after the sender
\* is gone, and fails only on an empty channel without sender
P_Recv ==
    /\ prep = "recv"
    /\ IF pchan # <<>> THEN prep' = "got" /\ pchan' = Tail(pchan)
       ELSE ~ptx /\ prep' = "exit" /\ UNCHANGED pchan
    /\ UNCHANGED <<pmain, pcount, ptx, pcancel, pevents>>

\* scanner.rs 218-229: the body of the reporter's loop
P_Report ==
    /\ prep = "got"
    /\ IF pcancel THEN prep' = "exit" /\ UNCHANGED pevents
       ELSE /\ prep' = "recv"
            /\ \E elapsed \in BOOLEAN :
                  pevents' = IF elapsed THEN Append(pevents, Event("walking", FALSE))
                             ELSE pevents
    /\ UNCHANGED <<pmain, pcount, pchan, ptx, pcancel>>

\* cancel_scan while the scan runs
P_Cancel ==
    /\ ~pcancel /\ pmain # "done"
    /\ pcancel' = TRUE
    /\ UNCHANGED <<pmain, pcount, pchan, ptx, prep, pevents>>

(***************************************************************************)
(* snapshot.rs: the comparison of two snapshots of one directory           *)
(***************************************************************************)
VARIABLES dold, dnew, dres

diffVars == <<dold, dnew, dres>>

\* Cache files that were in the cache directory when the program started and
\* that load_from_cache accepts: for a scan path, the tree of the record
VARIABLES precached

hitVars == <<precached>>

HitPaths == {Root, Append(Root, "a")}

HitIdle == precached = [p \in HitPaths |-> None]

\* The disk under the two compared directories L and R, and what the
\* comparison and the duplicate search returned
VARIABLES hdisk, cmpres, dupres

hashVars == <<hdisk, cmpres, dupres>>

HashIdle == hdisk = <<>> /\ cmpres = None /\ dupres = None

\* The arguments and the result of a helper of lib.rs applied on its own
VARIABLES fn_in, fn_out

fnVars == <<fn_in, fn_out>>

FnIdle == fn_in = None /\ fn_out = None

auxVars == <<cacheVars, progVars, diffVars, hitVars, hashVars, fnVars>>

\* snapshot.rs 221-234: a file node (the fields the comparison reads)
make_file(name, size) ==
    [name |-> name, size |-> size, is_dir |-> FALSE, children |-> <<>>, modified_at |-> None]

\* snapshot.rs 236-252: a directory node, its size the sum of its children's
make_dir(name, children) ==
    [name |-> name,
     size |-> SumOver([i \in DOMAIN children |-> children[i].size], Len(children)),
     is_dir |-> TRUE, children |-> children, modified_at |-> None]

EmptyMap == [k \in {} |-> 0]

MapInsert(map, k, v) == [x \in DOMAIN map \cup {k} |-> IF x = k THEN v ELSE map[x]]

\* unwrap_or(0)
UnwrapOr0(opt) == IF opt = None THEN 0 ELSE opt[1]

\* A key "root/x/y" is kept as the sequence of its names, which have no '/'
RECURSIVE flatten_tree_recursive(_, _, _), FlattenChildren(_, _, _, _)
flatten_tree_recursive(node, current_path, map) ==
    LET path == current_path \o <<node.name>>
    IN  FlattenChildren(node.children, 1, path,
                        MapInsert(map, path, [size |-> node.size, is_dir |-> node.is_dir,
                                              modified |-> UnwrapOr0(node.modified_at)]))

FlattenChildren(children, i, path, map) ==
    IF i > Len(children) THEN map
    ELSE FlattenChildren(children, i + 1, path,
                         flatten_tree_recursive(children[i], path, map))

flatten_tree(node) == flatten_tree_recursive(node, <<>>, EmptyMap)

SnapshotFileOf(files, key) ==
    [path |-> key, name |-> key[Len(key)], size |-> files[key].size,
     is_dir |-> files[key].is_dir, modified |-> files[key].modified]

ChangedFileOf(old_files, new_files, key) ==
    [path |-> key, name |-> key[Len(key)], old_size |-> old_files[key].size,
     new_size |-> new_files[key].size,
     size_diff |-> new_files[key].size - old_files[key].size,
     is_dir |-> old_files[key].is_dir]

\* snapshot.rs 159 read the other way: a directory never counts as changed
DiffersFilesOnly(o, n) == ~o.is_dir /\ o.size # n.size

\* snapshot.rs 159
Differs(o, n) == o.size # n.size

Abs(x) == IF x < 0 THEN 0 - x ELSE x

\* The orders a Vec collected from a hash set can have after sort_by(key desc)
SortedSeqs(S, key(_)) ==
    {s \in [1..Cardinality(S) -> S] :
        /\ \A i, j \in 1..Cardinality(S) : i # j => s[i] # s[j]
        /\ \A i \in 1..(Cardinality(S) - 1) : key(s[i]) >= key(s[i + 1])}

SumFileSizes(list) ==
    SumOver([i \in DOMAIN list |-> IF list[i].is_dir THEN 0 ELSE list[i].size], Len(list))

SumDiffs(list) == SumOver([i \in DOMAIN list |-> list[i].size_diff], Len(list))

SizeKey(f) == f.size

DiffKey(c) == Abs(c.size_diff)

\* snapshot.rs 91-215; the results differ in the order of entries with equal keys
compare_snapshots(old_root, new_root) ==
    LET old_files == flatten_tree(old_root)
        new_files == flatten_tree(new_root)
        old_keys == DOMAIN old_files
        new_keys == DOMAIN new_files
        added_set == {SnapshotFileOf(new_files, k) : k \in new_keys \ old_keys}
        removed_set == {SnapshotFileOf(old_files, k) : k \in old_keys \ new_keys}
        common_keys == old_keys \cap new_keys
        changed_set == {ChangedFileOf(old_files, new_files, k) :
                           k \in {c \in common_keys : Differs(old_files[c], new_files[c])}}
        unchanged == {c \in common_keys : ~Differs(old_files[c], new_files[c])}
    IN  {[added |-> added, removed |-> removed, changed |-> changed,
          added_size |-> SumFileSizes(added), removed_size |-> SumFileSizes(removed),
          net_size_change |-> SumFileSizes(added) - SumFileSizes(removed) + SumDiffs(changed),
          unchanged_count |-> Cardinality(unchanged)] :
            added \in SortedSeqs(added_set, SizeKey),
            removed \in SortedSeqs(removed_set, SizeKey),
            changed \in SortedSeqs(changed_set, DiffKey)}

\* Snapshots of one directory: a.txt, b.txt and c.txt come and go and change
\* size; x is missing, a file, or a directory with or without a file y
SnapA == {<<>>, <<make_file("a.txt", 100)>>}

SnapB == {<<>>, <<make_file("b.txt", 200)>>, <<make_file("b.txt", 500)>>}

SnapC == {<<>>, <<make_file("c.txt", 50)>>}

SnapX == {<<>>, <<make_file("x", 0)>>, <<make_file("x", 70)>>, <<make_dir("x", <<>>)>>,
          <<make_dir("x", <<make_file("y", 70)>>)>>, <<make_dir("x", <<make_file("y", 90)>>)>>}

SnapTrees == {make_dir("root", a \o b \o c \o x) : a \in SnapA, b \in SnapB, c \in SnapC, x \in SnapX}

DiffIdle == dold = None /\ dnew = None /\ dres = None

InitDiff == dold \in SnapTrees /\ dnew \in SnapTrees /\ dres = None

\* compare_snapshots(old, new)
D_Compare ==
    /\ dres = None
    /\ \E r \in compare_snapshots(dold, dnew) : dres' = Some(r)
    /\ UNCHANGED <<dold, dnew>>

(***************************************************************************)
(* compare.rs and duplicates.rs: content hashes, the comparison of two     *)
(* directories, the duplicate groups under a directory                     *)
(***************************************************************************)
\* compare.rs 22, scaled from 64 KiB
HASH_SAMPLE_SIZE == 1

\* duplicates.rs 21, scaled from 64 KiB
PARTIAL_HASH_SIZE == 1

\* duplicates.rs 22
MIN_FILE_SIZE == 1

\* Sha256::new(), update(..), finalize() and "{:x}": the digest of the bytes
\* fed, taken to be free of collisions
Sha256Hex(bytes) == <<"sha256", bytes>>

\* File::open(path).ok()? and the reads after it succeed
Readable(path) == path \in DOMAIN hdisk /\ ~hdisk[path].is_dir /\ hdisk[path].readable

\* compare.rs 497-513 (duplicates.rs 411-427 is the same function)
compute_full_hash(path) ==
    IF ~Readable(path) THEN None ELSE Some(Sha256Hex(hdisk[path].data))

\* The first `sample` bytes, the last `sample` bytes and the length, as the
\* hasher receives them; read_exact fails on a shorter file
SampleHash(path, size, sample) ==
    IF ~Readable(path) \/ Len(hdisk[path].data) < sample THEN None
    ELSE LET d == hdisk[path].data
         IN  Some(Sha256Hex(SubSeq(d, 1, sample) \o SubSeq(d, Len(d) - sample + 1, Len(d))
                            \o U64Bytes(size)))

\* compare.rs 474-495
compute_partial_hash(path, size) ==
    IF size <= HASH_SAMPLE_SIZE * 2 THEN compute_full_hash(path)
    ELSE SampleHash(path, size, HASH_SAMPLE_SIZE)

\* duplicates.rs 387-409
duplicates_compute_partial_hash(path, size) ==
    IF size <= PARTIAL_HASH_SIZE * 2 THEN compute_full_hash(path)
    ELSE SampleHash(path, size, PARTIAL_HASH_SIZE)

BothSome(lh, rh) == lh # None /\ rh # None /\ lh[1] = rh[1]

\* The mutant of are_files_identical: equal partial hashes are taken as proof.
are_files_identical_partial(left_path, right_path, size) ==
    BothSome(compute_partial_hash(left_path, size), compute_partial_hash(right_path, size))

\* compare.rs 451-472
are_files_identical(left_path, right_path, size) ==
    IF size <= HASH_SAMPLE_SIZE * 2
    THEN BothSome(compute_full_hash(left_path), compute_full_hash(right_path))
    ELSE IF \/ compute_partial_hash(left_path, size) = None
            \/ compute_partial_hash(right_path, size) = None
    THEN FALSE
    ELSE IF compute_partial_hash(left_path, size) # compute_partial_hash(right_path, size)
    THEN FALSE
    ELSE BothSome(compute_full_hash(left_path), compute_full_hash(right_path))

CompareOutcome(identical, conflict) == [is_identical |-> identical, is_type_conflict |-> conflict]

\* The mutant of compare_entry_pair: a directory against a file is compared
\* by size like two files.
compare_entry_pair_no_conflict(left_path, left_size, left_is_dir, right_path, right_size, right_is_dir) ==
    IF left_is_dir /\ right_is_dir THEN None
    ELSE IF left_size # right_size THEN Some(CompareOutcome(FALSE, FALSE))
    ELSE Some(CompareOutcome(are_files_identical(left_path, right_path, left_size), FALSE))

\* compare.rs 419-449
compare_entry_pair(left_path, left_size, left_is_dir, right_path, right_size, right_is_dir) ==
    IF left_is_dir /\ right_is_dir THEN None
    ELSE IF left_is_dir # right_is_dir THEN Some(CompareOutcome(FALSE, TRUE))
    ELSE IF left_size # right_size THEN Some(CompareOutcome(FALSE, FALSE))
    ELSE Some(CompareOutcome(are_files_identical(left_path, right_path, left_size), FALSE))

\* entry.metadata().map(|m| m.len()): the length the directory entry reports
MetaLen(path) == IF hdisk[path].is_dir THEN 0 ELSE Len(hdisk[path].data)

\* compare.rs 96-166: relative path -> (path, size, is_dir), the root left out
collect_files(root) ==
    LET below == {p \in DOMAIN hdisk : StartsWith(p, root) /\ p # root}
        keys == {SubSeq(p, Len(root) + 1, Len(p)) : p \in below}
    IN  [k \in keys |-> [path |-> root \o k, size |-> MetaLen(root \o k),
                         is_dir |-> hdisk[root \o k].is_dir]]

\* compare.rs 238-246 and 258-266
CompareFileOf(files, key) ==
    [path |-> files[key].path, relative_path |-> key, name |-> key[Len(key)],
     size |-> files[key].size, is_dir |-> files[key].is_dir]

\* compare.rs 345-357
DiffFileOf(left_files, right_files, key) ==
    [relative_path |-> key, name |-> key[Len(key)],
     left_size |-> left_files[key].size, right_size |-> right_files[key].size,
     left_path |-> left_files[key].path, right_path |-> right_files[key].path,
     left_is_dir |-> left_files[key].is_dir, right_is_dir |-> right_files[key].is_dir]

\* compare.rs 367-371
DiffFileKey(f) == Abs(f.left_size - f.right_size)

MaxOf(x, y) == IF x >= y THEN x ELSE y

\* compare.rs 338, over the keys in conflict
RECURSIVE SumMaxSizes(_, _, _)
SumMaxSizes(keys, left_files, right_files) ==
    IF keys = {} THEN 0
    ELSE LET k == CHOOSE x \in keys : TRUE
         IN  MaxOf(left_files[k].size, right_files[k].size)
               + SumMaxSizes(keys \ {k}, left_files, right_files)

ListSizes(list) == SumOver([i \in DOMAIN list |-> list[i].size], Len(list))

ListDiffs(list) == SumOver([i \in DOMAIN list |-> DiffFileKey(list[i])], Len(list))

\* compare.rs 168-411 when it is not cancelled: the results it can return,
\* one for each order the sorts can leave entries of equal key in
compare_directories(left_path, right_path) ==
    LET left_files == collect_files(left_path)
        right_files == collect_files(right_path)
        left_keys == DOMAIN left_files
        right_keys == DOMAIN right_files
        left_only_set == {CompareFileOf(left_files, k) : k \in left_keys \ right_keys}
        right_only_set == {CompareFileOf(right_files, k) : k \in right_keys \ left_keys}
        common_keys == left_keys \cap right_keys
        outcome(k) == compare_entry_pair(left_files[k].path, left_files[k].size,
                                         left_files[k].is_dir, right_files[k].path,
                                         right_files[k].size, right_files[k].is_dir)
        compared == {k \in common_keys : outcome(k) # None}
        identical == {k \in compared : outcome(k)[1].is_identical}
        conflicts == {k \in compared \ identical : outcome(k)[1].is_type_conflict}
        different_set == {DiffFileOf(left_files, right_files, k) :
                             k \in compared \ (identical \cup conflicts)}
        type_conflict_size == SumMaxSizes(conflicts, left_files, right_files)
    IN  {[left_only |-> left_only, right_only |-> right_only, different |-> different,
          identical_count |-> Cardinality(identical),
          left_only_size |-> ListSizes(left_only),
          right_only_size |-> ListSizes(right_only),
          different_size |-> ListDiffs(different) + type_conflict_size,
          type_conflict_count |-> Cardinality(conflicts),
          type_conflict_size |-> type_conflict_size] :
            left_only \in SortedSeqs(left_only_set, SizeKey),
            right_only \in SortedSeqs(right_only_set, SizeKey),
            different \in SortedSeqs(different_set, DiffFileKey)}

\* The orders in which a parallel walk can hand over the entries of S
Orders(S) ==
    {s \in [1..Cardinality(S) -> S] : \A i, j \in 1..Cardinality(S) : i # j => s[i] # s[j]}

PathsOfPairs(pairs) == [i \in DOMAIN pairs |-> pairs[i][1]]

\* duplicates.rs 334-341 and 365-371: the keys of a hash map filled from
\* (path, hash) pairs, each with its paths in the order of the pairs
GroupByHash(pairs) ==
    LET hashed == SelectSeq(pairs, LAMBDA e : e[2] # None)
    IN  {<<h, PathsOfPairs(SelectSeq(hashed, LAMBDA e : e[2][1] = h))>> :
            h \in {hashed[i][2][1] : i \in DOMAIN hashed}}

FullHashPairs(files) == [i \in DOMAIN files |-> <<files[i], compute_full_hash(files[i])>>]

RECURSIVE SumLens(_)
SumLens(groups) ==
    IF groups = {} THEN 0
    ELSE LET g == CHOOSE x \in groups : TRUE IN Len(g[2]) + SumLens(groups \ {g})

\* The mutant of group_duplicates_for_hashes: files with one partial hash are
\* reported without the full-hash pass.
group_duplicates_partial_only(size, hashes) ==
    [groups |-> {g \in GroupByHash(hashes) : Len(g[2]) > 1},
     full_hash_files |-> 0, partial_collision_groups |-> 0]

\* duplicates.rs 330-385
group_duplicates_for_hashes(size, hashes) ==
    LET hash_groups == GroupByHash(hashes)
        collided == {g \in hash_groups : Len(g[2]) > 1}
    IN  IF size <= PARTIAL_HASH_SIZE * 2
        THEN [groups |-> collided, full_hash_files |-> 0, partial_collision_groups |-> 0]
        ELSE [groups |-> UNION {{g \in GroupByHash(FullHashPairs(c[2])) : Len(g[2]) > 1} :
                                   c \in collided},
              full_hash_files |-> SumLens(collided),
              partial_collision_groups |-> Cardinality(collided)]

\* duplicates.rs 269-284
DuplicateGroupOf(hash, size, paths) ==
    [hash |-> hash, size |-> size,
     files |-> [i \in DOMAIN paths |-> [path |-> paths[i], name |-> paths[i][Len(paths[i])]]],
     wasted_bytes |-> size * (Len(paths) - 1)]

WastedKey(g) == g.wasted_bytes

FilesKey(g) == Len(g.files)

SumKey(list, key(_)) == SumOver([i \in DOMAIN list |-> key(list[i])], Len(list))

\* duplicates.rs 215-258 for the walk order `walk`: every size with more
\* than one file is hashed and grouped
SizeGroupResult(walk, size) ==
    LET paths == SelectSeq(walk, LAMBDA p : MetaLen(p) = size)
    IN  group_duplicates_for_hashes(size,
            [i \in DOMAIN paths |-> <<paths[i], duplicates_compute_partial_hash(paths[i], size)>>])

\* duplicates.rs 249-254: a counter summed over the size groups
SumField(walk, sizes, field(_)) ==
    LET order == CHOOSE s \in Orders(sizes) : TRUE
    IN  SumOver([i \in DOMAIN order |-> field(SizeGroupResult(walk, order[i]))], Len(order))

FullHashFilesOf(r) == r.full_hash_files

CollisionGroupsOf(r) == r.partial_collision_groups

\* duplicates.rs 84-321 when it is not cancelled: the results it can return,
\* one for each order of the walk and of the groups of equal wasted_bytes
find_duplicates(root_path, min_size) ==
    LET least == IF min_size = None THEN MIN_FILE_SIZE ELSE min_size[1]
        found == {p \in DOMAIN hdisk :
                     StartsWith(p, root_path) /\ ~hdisk[p].is_dir /\ MetaLen(p) >= least}
        candidates == {z \in {MetaLen(p) : p \in found} :
                          Cardinality({p \in found : MetaLen(p) = z}) > 1}
        duplicate_groups(walk) ==
            UNION {{DuplicateGroupOf(g[1], z, g[2]) : g \in SizeGroupResult(walk, z).groups} :
                      z \in candidates}
    IN  UNION {{[groups |-> result_groups,
                 total_duplicates |-> SumKey(result_groups, FilesKey),
                 total_wasted_bytes |-> SumKey(result_groups, WastedKey),
                 files_scanned |-> Cardinality(found),
                 files_hashed |-> Cardinality({p \in found : MetaLen(p) \in candidates}),
                 full_hash_files |-> SumField(walk, candidates, FullHashFilesOf),
                 partial_collision_groups |-> SumField(walk, candidates, CollisionGroupsOf)] :
                   result_groups \in SortedSeqs(duplicate_groups(walk), WastedKey)} :
                  walk \in Orders(found)}

\* The two compared directories and their parent
LeftRoot == <<"L">>

RightRoot == <<"R">>

HashKeys == {<<"x">>, <<"x", "z">>, <<"y">>}

HashDir == [is_dir |-> TRUE, data |-> <<>>, readable |-> TRUE]

HashFile(data, readable) == [is_dir |-> FALSE, data |-> data, readable |-> readable]

\* Two short files, three files longer than two samples of which two agree
\* on both ends, and a file that cannot be opened
HashEntries ==
    {HashDir, HashFile(<<1>>, TRUE), HashFile(<<2>>, TRUE), HashFile(<<1, 1, 1>>, TRUE),
     HashFile(<<1, 2, 1>>, TRUE), HashFile(<<1, 1, 1>>, FALSE)}

\* x is missing, a file, or a directory with or without the file x/z; y is
\* missing or a file
SideTrees ==
    {f \in UNION {[D -> HashEntries] : D \in SUBSET HashKeys} :
        /\ <<"x", "z">> \in DOMAIN f =>
              (<<"x">> \in DOMAIN f /\ f[<<"x">>].is_dir /\ ~f[<<"x", "z">>].is_dir)
        /\ <<"y">> \in DOMAIN f => ~f[<<"y">>].is_dir}

DiskOf(l, r) ==
    [p \in {LeftRoot, RightRoot} \cup {LeftRoot \o k : k \in DOMAIN l}
             \cup {RightRoot \o k : k \in DOMAIN r} |->
        IF Len(p) = 1 THEN HashDir ELSE IF p[1] = "L" THEN l[Tail(p)] ELSE r[Tail(p)]]

InitHash == (\E l, r \in SideTrees : hdisk = DiskOf(l, r)) /\ cmpres = None /\ dupres = None

\* The compare_directories command on L and R; cancel() during the run
\* makes it return None
H_Compare ==
    /\ cmpres = None
    /\ \E cancelled \in BOOLEAN :
          IF cancelled THEN cmpres' = Some(None)
          ELSE \E r \in compare_directories(LeftRoot, RightRoot) : cmpres' = Some(Some(r))
    /\ UNCHANGED <<hdisk, dupres>>

\* The find_duplicates command on the parent of L and R
H_FindDuplicates ==
    /\ dupres = None
    /\ \E cancelled \in BOOLEAN, min_size \in {None, Some(2)} :
          IF cancelled THEN dupres' = Some(None)
          ELSE \E r \in find_duplicates(<<>>, min_size) : dupres' = Some(Some(r))
    /\ UNCHANGED <<hdisk, cmpres>>

(***************************************************************************)
(* lib.rs: AppState, the commands and tasks that share it, and the disk    *)
(***************************************************************************)
VARIABLES fs, mutations, commands, scan_in_progress, is_cancelled, current_tree,
          current_scan_path, watcher, dirty_paths, incremental_scheduled,
          timers, cache, saves, req, ref, scanner, emitted

ctrlVars == <<fs, mutations, commands, scan_in_progress, is_cancelled, current_tree,
              current_scan_path, watcher, dirty_paths, incremental_scheduled,
              timers, cache, saves, req, ref, scanner, emitted>>

\* scan_directory requests in flight and refresh tasks in flight
Reqs == {"q1", "q2"}

Tasks == {"t1", "t2"}

Procs == Reqs \cup Tasks

a_ == <<"r", "a">>
b_ == <<"r", "b">>
n_ == <<"r", "a", "n">>
c_ == <<"r", "c">>
f1_ == <<"r", "a", "f1">>
f2_ == <<"r", "a", "f2">>
g_ == <<"r", "b", "g">>
h_ == <<"r", "h">>
k_ == <<"r", "k">>

\* The disk before the first scan: /r with /r/a/f1 and /r/b/g
InitFs ==
    [p \in {Root, a_, f1_, b_, g_} |->
        IF p \in DirPaths THEN DirEntry ELSE FileEntry(Rank(p))]

\* Files and directories that come and go while the watcher is armed
MutableFiles == {f1_, n_, g_}

MutableDirs == {c_}

ScOff == [phase |-> "off", root |-> Root, walk |-> EmptyWalk, batches |-> 0, result |-> None]

\* Scanner::new(state.scanner_state.clone()) followed by scanner.scan(dir, ..)
ScStart(dir) == [ScOff EXCEPT !.phase = "reset", !.root = dir]

ReqIdle ==
    [pc |-> "idle", path |-> Root, result |-> <<"none">>, cancelled |-> FALSE,
     stored |-> FALSE]

TaskIdle ==
    [pc |-> "idle", dirty_dirs |-> <<>>, full_rescan |-> FALSE, queue |-> <<>>,
     next_root |-> None, walks |-> <<>>, effective |-> <<>>, drained |-> {},
     scanned |-> {}]

\* AppState::default (lib.rs 130-143), an empty cache directory
CtrlIdleOn(disk) ==
    /\ fs = disk /\ mutations = 0 /\ commands = 0
    /\ scan_in_progress = FALSE /\ is_cancelled = FALSE
    /\ current_tree = None /\ current_scan_path = None /\ watcher = None
    /\ dirty_paths = {} /\ incremental_scheduled = FALSE /\ timers = 0
    /\ cache = None /\ saves = {}
    /\ req = [q \in Reqs |-> ReqIdle]
    /\ ref = [t \in Tasks |-> TaskIdle]
    /\ scanner = [p \in Procs |-> ScOff]
    /\ emitted = <<>>

CtrlIdle == CtrlIdleOn(InitFs)

(***************************************************************************)
(* The scanner on its own: one scan of a bounded family of filesystems     *)
(***************************************************************************)
VARIABLES sfs, sphase, swalk, stree, scount, workers

scanVars == <<sfs, sphase, swalk, stree, scount, workers>>

vars == <<scanVars, ctrlVars, auxVars>>

Workers == {1, 2}


Closed(S) == Root \in S /\ \A p \in S \ {Root} : Parent(p) \in S

\* Sets of paths that are hard links of one inode
LinkGroups == { {}, {f1_, f2_}, {f1_, g_}, {g_, h_, k_} }

MinRank(S) == CHOOSE i \in {Rank(p) : p \in S} : \A q \in S : i <= Rank(q)

FsOf(S, G) ==
    [p \in S |->
        IF p \in DirPaths THEN DirEntry
        ELSE FileEntry(IF p \in G THEN MinRank(G) ELSE Rank(p))]

ScanUniverse == AllPaths \ {n_, c_}

ScanFsFamily ==
    {FsOf(S, G) : <<S, G>> \in
        {sg \in (SUBSET ScanUniverse) \X LinkGroups : Closed(sg[1]) /\ sg[2] \subseteq sg[1]}}

WalkUniverse == {Root, <<"r", "a">>, f1_, f2_, <<"r", "b">>, g_, h_, k_}

WalkFsFamily ==
    {FsOf(S, G) : <<S, G>> \in
        {sg \in (SUBSET WalkUniverse) \X LinkGroups :
            /\ Closed(sg[1]) /\ sg[2] \subseteq sg[1]
            /\ Cardinality(sg[1]) <= MAX_TOTAL_NODES
            /\ Cardinality({p \in sg[1] : Len(p) = 2}) <= MAX_CHILDREN}}

ScanIdle ==
    /\ sphase = "walk" /\ swalk = EmptyWalk /\ stree = None /\ scount = 0
    /\ workers = [w \in Workers |-> None]

AuxIdle == CacheIdle /\ ProgIdle /\ DiffIdle /\ HitIdle /\ HashIdle /\ FnIdle

InitScan == sfs \in ScanFsFamily /\ ScanIdle /\ CtrlIdle /\ AuxIdle

InitWalk == sfs \in WalkFsFamily /\ ScanIdle /\ CtrlIdle /\ AuxIdle

\* Phase 1 as one step: the callbacks run in one of the walk orders.
ScanWalk ==
    /\ sphase = "walk"
    /\ \E ord \in IterOrders : swalk' = WalkAll(sfs, Root, ord)
    /\ sphase' = "relations"
    /\ UNCHANGED <<ctrlVars, auxVars, sfs, stree, scount, workers>>

Unvisited ==
    {p \in WalkSet(sfs, Root) :
        /\ p \notin DOMAIN swalk.nodes
        /\ \A w \in Workers : workers[w] = None \/ workers[w][1].path # p}

\* A worker takes an entry whose directory has been listed and inserts its inode.
WorkerBegin(w) ==
    /\ sphase = "walk" /\ workers[w] = None
    /\ \E p \in Unvisited :
          /\ p = Root \/ Parent(p) \in DOMAIN swalk.nodes
          /\ workers' = [workers EXCEPT ![w] =
                            Some([path |-> p, dup |-> IsDuplicate(swalk.seen, sfs[p])])]
          /\ swalk' = InodeInsert(swalk, sfs[p])
    /\ UNCHANGED <<ctrlVars, auxVars, sfs, sphase, stree, scount>>

\* The worker finishes the callback: counters and node store.
WorkerEnd(w) ==
    /\ sphase = "walk" /\ workers[w] # None
    /\ swalk' = StoreEntry(swalk, workers[w][1].path, sfs[workers[w][1].path],
                           workers[w][1].dup)
    /\ workers' = [workers EXCEPT ![w] = None]
    /\ UNCHANGED <<ctrlVars, auxVars, sfs, sphase, stree, scount>>

\* walker.run returns when every entry has been handed to a callback.
WalkDone ==
    /\ sphase = "walk" /\ Unvisited = {} /\ \A w \in Workers : workers[w] = None
    /\ DOMAIN swalk.nodes = WalkSet(sfs, Root)
    /\ sphase' = "relations"
    /\ UNCHANGED <<ctrlVars, auxVars, sfs, swalk, stree, scount, workers>>

ScanRelations ==
    /\ sphase = "relations"
    /\ \E ord \in IterOrders : swalk' = [swalk EXCEPT !.nodes = LinkRelations(@, ord)]
    /\ sphase' = "sizes"
    /\ UNCHANGED <<ctrlVars, auxVars, sfs, stree, scount, workers>>

ScanSizes ==
    /\ sphase = "sizes"
    /\ swalk' = [swalk EXCEPT !.nodes = calc_sizes_bottomup_dashmap(@, Root)]
    /\ sphase' = "tree"
    /\ UNCHANGED <<ctrlVars, auxVars, sfs, stree, scount, workers>>

ScanTree ==
    /\ sphase = "tree"
    /\ LET r == build_tree_dashmap(swalk.nodes, Root, 0, 0)
       IN  stree' = r.node /\ scount' = r.count
    /\ sphase' = "done"
    /\ UNCHANGED <<ctrlVars, auxVars, sfs, swalk, workers>>

NextScan == ScanWalk \/ ScanRelations \/ ScanSizes \/ ScanTree

NextWalk ==
    \/ \E w \in Workers : WorkerBegin(w)
    \/ \E w \in Workers : WorkerEnd(w)
    \/ WalkDone
    \/ ScanRelations
    \/ ScanSizes
    \/ ScanTree

SpecScan == InitScan /\ [][NextScan]_vars

SpecWalk == InitWalk /\ [][NextWalk]_vars

(***************************************************************************)
(* scanner.rs: Scanner::scan as run by a command or a refresh task p       *)
(***************************************************************************)
\* scanner.rs 185: self.state.reset()
S_Reset(p) ==
    /\ scanner[p].phase = "reset"
    /\ is_cancelled' = FALSE
    /\ scanner' = [scanner EXCEPT ![p].phase = "walk"]
    /\ emitted' = <<>>
    /\ UNCHANGED <<fs, mutations, commands, scan_in_progress, current_tree, current_scan_path,
                   watcher, dirty_paths, incremental_scheduled, timers, cache, saves,
                   req, ref>>

\* scanner.rs 298-429: the walk; a cancelled walk makes scan return None
S_Walk(p) ==
    /\ scanner[p].phase = "walk"
    /\ IF is_cancelled
       THEN scanner' = [scanner EXCEPT ![p].phase = "ret", ![p].result = None]
       ELSE \E ord \in IterOrders :
              LET w == WalkAll(fs, scanner[p].root, ord)
              IN  scanner' = [scanner EXCEPT ![p].phase = "relations", ![p].walk = w,
                                             ![p].batches = FullBatches(w.nodes)]
    /\ emitted' = <<>>
    /\ UNCHANGED <<fs, mutations, commands, scan_in_progress, is_cancelled, current_tree,
                   current_scan_path, watcher, dirty_paths, incremental_scheduled,
                   timers, cache, saves, req, ref>>

\* scanner.rs 466-478: a full batch of pairs; the only cancel check of the phase
S_RelBatch(p) ==
    /\ scanner[p].phase = "relations" /\ scanner[p].batches > 0
    /\ IF is_cancelled
       THEN scanner' = [scanner EXCEPT ![p].phase = "ret", ![p].result = None,
                                      ![p].walk = EmptyWalk, ![p].batches = 0]
       ELSE scanner' = [scanner EXCEPT ![p].batches = @ - 1]
    /\ emitted' = <<>>
    /\ UNCHANGED <<fs, mutations, commands, scan_in_progress, is_cancelled, current_tree,
                   current_scan_path, watcher, dirty_paths, incremental_scheduled,
                   timers, cache, saves, req, ref>>

\* scanner.rs 481-495: the last, partial batch is applied without a check
S_Relations(p) ==
    /\ scanner[p].phase = "relations" /\ scanner[p].batches = 0
    /\ \E ord \in IterOrders :
          scanner' = [scanner EXCEPT ![p].phase = "sizes",
                                     ![p].walk.nodes = LinkRelations(@, ord)]
    /\ emitted' = <<>>
    /\ UNCHANGED <<fs, mutations, commands, scan_in_progress, is_cancelled, current_tree,
                   current_scan_path, watcher, dirty_paths, incremental_scheduled,
                   timers, cache, saves, req, ref>>

\* scanner.rs 520
S_Sizes(p) ==
    /\ scanner[p].phase = "sizes"
    /\ scanner' = [scanner EXCEPT ![p].phase = "tree",
                      ![p].walk.nodes = calc_sizes_bottomup_dashmap(@, scanner[p].root)]
    /\ emitted' = <<>>
    /\ UNCHANGED <<fs, mutations, commands, scan_in_progress, is_cancelled, current_tree,
                   current_scan_path, watcher, dirty_paths, incremental_scheduled,
                   timers, cache, saves, req, ref>>

\* scanner.rs 536-618: the projection; scan returns the tree
S_Tree(p) ==
    /\ scanner[p].phase = "tree"
    /\ scanner' = [scanner EXCEPT ![p].phase = "ret", ![p].walk = EmptyWalk,
                      ![p].result = build_tree_dashmap(scanner[p].walk.nodes,
                                                       scanner[p].root, 0, 0).node]
    /\ emitted' = <<>>
    /\ UNCHANGED <<fs, mutations, commands, scan_in_progress, is_cancelled, current_tree,
                   current_scan_path, watcher, dirty_paths, incremental_scheduled,
                   timers, cache, saves, req, ref>>

\* lib.rs 666-669; the ghost field records the requests the cancel falls into
Cancel ==
    /\ is_cancelled' = TRUE
    /\ req' = [q \in Reqs |->
                 IF req[q].pc = "scan" /\ scanner[q].phase \in
                        {"reset", "walk", "relations", "sizes", "tree"}
                 THEN [req[q] EXCEPT !.cancelled = TRUE] ELSE req[q]]
    /\ emitted' = <<>>
    /\ UNCHANGED <<fs, mutations, commands, scan_in_progress, current_tree, current_scan_path,
                   watcher, dirty_paths, incremental_scheduled, timers, cache, saves,
                   ref, scanner>>

(***************************************************************************)
(* lib.rs: scan_directory                                                  *)
(***************************************************************************)
ScanPaths == {Root}

\* scan_directory and refresh_incremental commands issued in one behaviour
MaxCommands == 3

\* The request slot of the next scan_directory command
FreeReq == IF req["q1"].pc \in {"idle", "done"} THEN "q1" ELSE "q2"

\* The cache file of a scan path: the record this run has saved, else the
\* one found at start
DiskFile(scan_path) ==
    IF cache = None /\ scan_path \in HitPaths /\ precached[scan_path] # None
    THEN Some(EncScanFull(CachedScanOf(PathStr(scan_path),
                                       ToFileNode(precached[scan_path][1]), 1)))
    ELSE CacheFileOf(cache, scan_path)

\* The tree of the record load_from_cache returned
LoadedTree(scan_path) ==
    IF cache = None THEN precached[scan_path][1] ELSE cache[1].root

\* lib.rs 529-531: load_from_cache returned a record, whose root is the tree the
\* request publishes
IsRecordOf(r, tree) == r[1] = "ok" /\ r[2].root = ToFileNode(tree)

CacheLoads(scan_path) == IsRecordOf(load_from_cache(DiskFile(scan_path)), LoadedTree(scan_path))

\* lib.rs 513-529 and 553-561: path checks, the test-and-set, the choice of route
SD_Start(q, path, use_cache) ==
    /\ req[q].pc \in {"idle", "done"}
    /\ commands < MaxCommands /\ commands' = commands + 1
    /\ LET r == [ReqIdle EXCEPT !.path = path]
       IN  IF ~IsDirOnDisk(fs, path)
           THEN /\ req' = [req EXCEPT ![q] = [r EXCEPT !.pc = "done",
                                                        !.result = <<"err", "path">>]]
                /\ UNCHANGED <<scan_in_progress, scanner>>
           ELSE IF ~SwapAcquires(scan_in_progress)
           THEN /\ req' = [req EXCEPT ![q] = [r EXCEPT !.pc = "done",
                                                        !.result = <<"err", "busy">>]]
                /\ scan_in_progress' = FlagAfterSwap(scan_in_progress)
                /\ UNCHANGED scanner
           ELSE /\ scan_in_progress' = FlagAfterSwap(scan_in_progress)
                /\ IF use_cache /\ CacheLoads(path)
                   THEN /\ req' = [req EXCEPT ![q] = [r EXCEPT !.pc = "load"]]
                        /\ UNCHANGED scanner
                   ELSE /\ req' = [req EXCEPT ![q] = [r EXCEPT !.pc = "scan"]]
                        /\ scanner' = [scanner EXCEPT ![q] = ScStart(path)]
    /\ emitted' = <<>>
    /\ UNCHANGED <<fs, mutations, is_cancelled, current_tree, current_scan_path,
                   watcher, dirty_paths, incremental_scheduled, timers, cache, saves,
                   ref>>

\* lib.rs 530-546: the cached tree is published and the flag released
SD_CacheHit(q) ==
    /\ req[q].pc = "load"
    /\ current_tree' = Some(LoadedTree(req[q].path))
    /\ current_scan_path' = Some(req[q].path)
    /\ dirty_paths' = {}
    /\ scan_in_progress' = FALSE
    /\ req' = [req EXCEPT ![q].pc = "hit",
                          ![q].result = <<"ok", Some(LoadedTree(req[q].path))>>]
    /\ emitted' = <<>>
    /\ UNCHANGED <<fs, mutations, commands, is_cancelled, watcher, incremental_scheduled,
                   timers, cache, saves, ref, scanner>>

\* lib.rs 547-548 with start_watching, lib.rs 146-218
SD_Watch(q) ==
    /\ req[q].pc = "hit"
    /\ watcher' = Some(req[q].path)
    /\ incremental_scheduled' = FALSE
    /\ req' = [req EXCEPT ![q].pc = "done"]
    /\ emitted' = <<>>
    /\ UNCHANGED <<fs, mutations, commands, scan_in_progress, is_cancelled, current_tree,
                   current_scan_path, dirty_paths, timers, cache, saves, ref, scanner>>

\* lib.rs 566-594: the scan has returned
SD_Return(q) ==
    /\ req[q].pc = "scan" /\ scanner[q].phase = "ret"
    /\ IF scanner[q].result # None
       THEN /\ current_tree' = scanner[q].result
            /\ current_scan_path' = Some(req[q].path)
            /\ dirty_paths' = {}
            /\ saves' = saves \cup {[path |-> req[q].path, root |-> scanner[q].result[1]]}
            /\ watcher' = Some(req[q].path)
            /\ incremental_scheduled' = FALSE
       ELSE UNCHANGED <<current_tree, current_scan_path, dirty_paths, saves, watcher,
                        incremental_scheduled>>
    /\ scan_in_progress' = FALSE
    /\ req' = [req EXCEPT ![q].pc = "done", ![q].result = ScanResultOf(scanner[q].result),
                          ![q].stored = scanner[q].result # None]
    /\ scanner' = [scanner EXCEPT ![q] = ScOff]
    /\ emitted' = <<>>
    /\ UNCHANGED <<fs, mutations, commands, is_cancelled, timers, cache, ref>>

\* cache.rs 69-116: the background save spawned at lib.rs 580
CacheSave ==
    /\ \E s \in saves, now \in Times :
          LET r == save_to_cache(CacheFileOf(cache, s.path), PathStr(s.path),
                                 ToFileNode(s.root), now)
          IN  /\ cache' = IF r.result = <<"ok">>
                          THEN Some([version |-> CACHE_VERSION, root |-> s.root,
                                     incremental |-> FALSE])
                          ELSE cache
              /\ saves' = saves \ {s}
    /\ emitted' = <<>>
    /\ UNCHANGED <<fs, mutations, commands, scan_in_progress, is_cancelled, current_tree,
                   current_scan_path, watcher, dirty_paths, incremental_scheduled,
                   timers, req, ref, scanner>>

(***************************************************************************)
(* lib.rs: the incremental refresh                                         *)
(***************************************************************************)
\* cache::save_incremental_update (called at lib.rs 466): the record of the
\* path takes the new tree and a last-incremental stamp
SaveIncremental(old, root) ==
    IF old = None
    THEN Some([version |-> CACHE_VERSION, root |-> root, incremental |-> TRUE])
    ELSE Some([old[1] EXCEPT !.root = root, !.incremental = TRUE])

\* lib.rs 120-126, without the clock reading
IncrementalStatus(phase, updated, full_rescan, dirty_count) ==
    [event |-> "incremental-status", phase |-> phase, updated |-> updated,
     full_rescan |-> full_rescan, dirty_count |-> dirty_count]

\* lib.rs 467
ScanIncremental(root) == [event |-> "scan-incremental", root |-> root]

\* The task that runs the next refresh
FreeTask == IF ref["t1"].pc = "idle" THEN "t1" ELSE "t2"

\* The mutant of RefreshDropped: the dirty set is taken before the test-and-set.
RefreshDroppedAfterDrain(dirty) ==
    dirty_paths' = {} /\ emitted' = <<>> /\ UNCHANGED <<scan_in_progress, ref, scanner>>

\* lib.rs 334-336 and 343-349: the early returns before the dirty set is taken
RefreshDropped(dirty) ==
    dirty_paths' = dirty /\ emitted' = <<>> /\ UNCHANGED <<scan_in_progress, ref, scanner>>

\* lib.rs 332-436 up to the first scan, entered with the dirty set `dirty`
BeginRefresh(t, dirty) ==
    IF \/ ~SwapAcquires(scan_in_progress)
       \/ current_scan_path = None
    THEN RefreshDropped(dirty)
    ELSE IF dirty = {}
    THEN /\ dirty_paths' = {}
         /\ emitted' = <<IncrementalStatus("complete", FALSE, FALSE, 0)>>
         /\ UNCHANGED <<scan_in_progress, ref, scanner>>
    ELSE LET root_path == current_scan_path[1]
             dirty_dirs == coalesce_dirty_dirs(dirty, root_path, fs)
             full_rescan == FullRescanRule(dirty_dirs, root_path)
             effective == IF current_tree = None \/ full_rescan THEN <<>>
                          ELSE EffectiveDirs(current_tree[1], dirty_dirs, root_path)
             whole == \/ current_tree = None \/ full_rescan
                      \/ \E i \in DOMAIN effective : effective[i] = root_path
         IN  /\ ref[t].pc = "idle"
             /\ dirty_paths' = {}
             /\ scan_in_progress' = TRUE
             /\ emitted' = <<IncrementalStatus("start", FALSE, full_rescan, Len(dirty_dirs))>>
             /\ ref' = [ref EXCEPT ![t] =
                          [pc |-> IF whole THEN "full"
                                  ELSE IF effective = <<>> THEN "store" ELSE "subtrees",
                           dirty_dirs |-> dirty_dirs, full_rescan |-> full_rescan,
                           queue |-> IF whole THEN <<>> ELSE effective,
                           next_root |-> current_tree,
                           walks |-> IF whole THEN <<root_path>> ELSE <<>>,
                           effective |-> effective, drained |-> dirty,
                           scanned |-> {}]]
             /\ scanner' = IF whole THEN [scanner EXCEPT ![t] = ScStart(root_path)]
                           ELSE scanner

\* lib.rs 168-173: the debounce timer fires
TimerFire ==
    /\ timers > 0
    /\ timers' = timers - 1
    /\ incremental_scheduled' = FALSE
    /\ BeginRefresh(FreeTask, dirty_paths)
    /\ UNCHANGED <<fs, mutations, commands, is_cancelled, current_tree, current_scan_path,
                   watcher, cache, saves, req>>

\* lib.rs 636-644: the refresh_incremental command
RefreshCmd ==
    /\ commands < MaxCommands /\ commands' = commands + 1
    /\ BeginRefresh(FreeTask, IF current_scan_path = None THEN dirty_paths
                               ELSE dirty_paths \cup {current_scan_path[1]})
    /\ UNCHANGED <<fs, mutations, is_cancelled, current_tree, current_scan_path,
                   watcher, incremental_scheduled, timers, cache, saves, req>>

\* lib.rs 405-410 and 431-436: the scan of the root has returned
R_FullDone(t) ==
    /\ ref[t].pc = "full" /\ scanner[t].phase = "ret"
    /\ ref' = [ref EXCEPT ![t].pc = "store",
                          ![t].next_root = IF scanner[t].result # None
                                           THEN scanner[t].result ELSE @,
                          ![t].scanned = IF scanner[t].result # None
                                         THEN @ \cup {scanner[t].root} ELSE @]
    /\ scanner' = [scanner EXCEPT ![t] = ScOff]
    /\ emitted' = <<>>
    /\ UNCHANGED <<fs, mutations, commands, scan_in_progress, is_cancelled, current_tree,
                   current_scan_path, watcher, dirty_paths, incremental_scheduled,
                   timers, cache, saves, req>>

\* lib.rs 439-449: the next effective directory is scanned on its own
R_SubStart(t) ==
    /\ ref[t].pc = "subtrees"
    /\ scanner' = [scanner EXCEPT ![t] = ScStart(Head(ref[t].queue))]
    /\ ref' = [ref EXCEPT ![t].pc = "sub", ![t].walks = Append(@, Head(ref[t].queue))]
    /\ emitted' = <<>>
    /\ UNCHANGED <<fs, mutations, commands, scan_in_progress, is_cancelled, current_tree,
                   current_scan_path, watcher, dirty_paths, incremental_scheduled,
                   timers, cache, saves, req>>

\* lib.rs 446-457: a subtree that was produced is spliced into next_root
R_SubDone(t) ==
    /\ ref[t].pc = "sub" /\ scanner[t].phase = "ret"
    /\ ref' = [ref EXCEPT
                 ![t].pc = IF Len(ref[t].queue) = 1 THEN "store" ELSE "subtrees",
                 ![t].queue = Tail(@),
                 ![t].next_root =
                     IF scanner[t].result # None
                     THEN Some(replace_subtree(@[1], Head(ref[t].queue),
                                               scanner[t].result[1]))
                     ELSE @,
                 ![t].scanned = IF scanner[t].result # None
                                THEN @ \cup {scanner[t].root} ELSE @]
    /\ scanner' = [scanner EXCEPT ![t] = ScOff]
    /\ emitted' = <<>>
    /\ UNCHANGED <<fs, mutations, commands, scan_in_progress, is_cancelled, current_tree,
                   current_scan_path, watcher, dirty_paths, incremental_scheduled,
                   timers, cache, saves, req>>

\* lib.rs 461-502: the tree is published and saved, the flag released; when
\* save_incremental_update fails, the `?` of line 466 returns at once
R_Finish(t) ==
    /\ ref[t].pc = "store"
    /\ IF ref[t].next_root # None
       THEN /\ current_tree' = ref[t].next_root
            /\ \E save_ok \in BOOLEAN :
                  IF save_ok
                  THEN /\ cache' = SaveIncremental(cache, ref[t].next_root[1])
                       /\ scan_in_progress' = FALSE
                       /\ emitted' = <<ScanIncremental(ref[t].next_root[1]),
                                       IncrementalStatus("complete", TRUE, ref[t].full_rescan,
                                                         Len(ref[t].dirty_dirs))>>
                  ELSE emitted' = <<>> /\ UNCHANGED <<cache, scan_in_progress>>
       ELSE /\ scan_in_progress' = FALSE
            /\ emitted' = <<IncrementalStatus("complete", FALSE, ref[t].full_rescan,
                                              Len(ref[t].dirty_dirs))>>
            /\ UNCHANGED <<current_tree, cache>>
    /\ ref' = [ref EXCEPT ![t] = TaskIdle]
    /\ UNCHANGED <<fs, mutations, commands, is_cancelled, current_scan_path, watcher,
                   dirty_paths, incremental_scheduled, timers, saves, req, scanner>>

(***************************************************************************)
(* The disk changes under an armed watcher; the callback of lib.rs 158-175 *)
(* runs for the path of the change.                                        *)
(***************************************************************************)
MaxMutations == 3

Notify(p) ==
    /\ dirty_paths' = dirty_paths \cup {p}
    /\ incremental_scheduled' = TRUE
    /\ timers' = IF incremental_scheduled THEN timers ELSE timers + 1

CanMutate(p) ==
    /\ watcher # None /\ StartsWith(p, watcher[1])
    /\ mutations < MaxMutations
    /\ Parent(p) \in DOMAIN fs

CreateFile(p) ==
    /\ CanMutate(p) /\ p \notin DOMAIN fs
    /\ fs' = [q \in DOMAIN fs \cup {p} |-> IF q = p THEN FileEntry(Rank(p)) ELSE fs[q]]
    /\ mutations' = mutations + 1
    /\ Notify(p)
    /\ emitted' = <<>>
    /\ UNCHANGED <<commands, scan_in_progress, is_cancelled, current_tree,
                   current_scan_path, watcher, cache, saves, req, ref, scanner>>

DeleteFile(p) ==
    /\ CanMutate(p) /\ p \in DOMAIN fs
    /\ fs' = [q \in DOMAIN fs \ {p} |-> fs[q]]
    /\ mutations' = mutations + 1
    /\ Notify(p)
    /\ emitted' = <<>>
    /\ UNCHANGED <<commands, scan_in_progress, is_cancelled, current_tree,
                   current_scan_path, watcher, cache, saves, req, ref, scanner>>

CreateDir(p) ==
    /\ CanMutate(p) /\ p \notin DOMAIN fs
    /\ fs' = [q \in DOMAIN fs \cup {p} |-> IF q = p THEN DirEntry ELSE fs[q]]
    /\ mutations' = mutations + 1
    /\ Notify(p)
    /\ emitted' = <<>>
    /\ UNCHANGED <<commands, scan_in_progress, is_cancelled, current_tree,
                   current_scan_path, watcher, cache, saves, req, ref, scanner>>

Init == CtrlIdle /\ sfs = InitFs /\ ScanIdle /\ AuxIdle

\* SD_CacheHit and SD_Watch are no steps here: SD_Start takes that route only
\* when load_from_cache succeeds, and no record written for a scanned tree
\* decodes (every such tree has a directory, whose optional fields are skipped).
Next ==
    \/ \E path \in ScanPaths, use_cache \in BOOLEAN :
          SD_Start(FreeReq, path, use_cache) /\ UNCHANGED <<scanVars, auxVars>>
    \/ \E q \in Reqs : SD_Return(q) /\ UNCHANGED <<scanVars, auxVars>>
    \/ \E p \in Procs : S_Reset(p) /\ UNCHANGED <<scanVars, auxVars>>
    \/ \E p \in Procs : S_Walk(p) /\ UNCHANGED <<scanVars, auxVars>>
    \/ \E p \in Procs : S_RelBatch(p) /\ UNCHANGED <<scanVars, auxVars>>
    \/ \E p \in Procs : S_Relations(p) /\ UNCHANGED <<scanVars, auxVars>>
    \/ \E p \in Procs : S_Sizes(p) /\ UNCHANGED <<scanVars, auxVars>>
    \/ \E p \in Procs : S_Tree(p) /\ UNCHANGED <<scanVars, auxVars>>
    \/ Cancel /\ UNCHANGED <<scanVars, auxVars>>
    \/ CacheSave /\ UNCHANGED <<scanVars, auxVars>>
    \/ TimerFire /\ UNCHANGED <<scanVars, auxVars>>
    \/ RefreshCmd /\ UNCHANGED <<scanVars, auxVars>>
    \/ \E t \in Tasks : R_FullDone(t) /\ UNCHANGED <<scanVars, auxVars>>
    \/ \E t \in Tasks : R_SubStart(t) /\ UNCHANGED <<scanVars, auxVars>>
    \/ \E t \in Tasks : R_SubDone(t) /\ UNCHANGED <<scanVars, auxVars>>
    \/ \E t \in Tasks : R_Finish(t) /\ UNCHANGED <<scanVars, auxVars>>
    \/ CreateFile(n_) /\ UNCHANGED <<scanVars, auxVars>>
    \/ DeleteFile(n_) /\ UNCHANGED <<scanVars, auxVars>>

\* One cold scan of /r, then only the watcher and its debounced refreshes.
NextIncr ==
    \/ current_scan_path = None /\ SD_Start("q1", Root, FALSE) /\ UNCHANGED <<scanVars, auxVars>>
    \/ \E q \in Reqs : SD_Return(q) /\ UNCHANGED <<scanVars, auxVars>>
    \/ \E p \in Procs : S_Reset(p) /\ UNCHANGED <<scanVars, auxVars>>
    \/ \E p \in Procs : S_Walk(p) /\ UNCHANGED <<scanVars, auxVars>>
    \/ \E p \in Procs : S_RelBatch(p) /\ UNCHANGED <<scanVars, auxVars>>
    \/ \E p \in Procs : S_Relations(p) /\ UNCHANGED <<scanVars, auxVars>>
    \/ \E p \in Procs : S_Sizes(p) /\ UNCHANGED <<scanVars, auxVars>>
    \/ \E p \in Procs : S_Tree(p) /\ UNCHANGED <<scanVars, auxVars>>
    \/ CacheSave /\ UNCHANGED <<scanVars, auxVars>>
    \/ TimerFire /\ UNCHANGED <<scanVars, auxVars>>
    \/ \E t \in Tasks : R_FullDone(t) /\ UNCHANGED <<scanVars, auxVars>>
    \/ \E t \in Tasks : R_SubStart(t) /\ UNCHANGED <<scanVars, auxVars>>
    \/ \E t \in Tasks : R_SubDone(t) /\ UNCHANGED <<scanVars, auxVars>>
    \/ \E t \in Tasks : R_Finish(t) /\ UNCHANGED <<scanVars, auxVars>>
    \/ \E p \in MutableFiles : CreateFile(p) /\ UNCHANGED <<scanVars, auxVars>>
    \/ \E p \in MutableFiles : DeleteFile(p) /\ UNCHANGED <<scanVars, auxVars>>
    \/ \E p \in MutableDirs : CreateDir(p) /\ UNCHANGED <<scanVars, auxVars>>

\* A disk on which /r/a holds more entries than MAX_CHILDREN, so that the
\* directory /r/a/s is folded into the overflow node of /r/a
s_ == <<"r", "a", "s">>
t_ == <<"r", "a", "s", "t">>
u_ == <<"r", "a", "s", "t", "u">>

DeepFs ==
    [p \in {Root, a_, f1_, f2_, n_, s_, t_} |->
        IF p \in DirPaths THEN DirEntry ELSE FileEntry(Rank(p))]

\* One cold scan of /r on that disk, then a file that comes and goes two
\* levels below /r/a, and the debounced refreshes
NextDeep ==
    \/ current_scan_path = None /\ SD_Start("q1", Root, FALSE) /\ UNCHANGED <<scanVars, auxVars>>
    \/ \E q \in Reqs : SD_Return(q) /\ UNCHANGED <<scanVars, auxVars>>
    \/ \E p \in Procs : S_Reset(p) /\ UNCHANGED <<scanVars, auxVars>>
    \/ \E p \in Procs : S_Walk(p) /\ UNCHANGED <<scanVars, auxVars>>
    \/ \E p \in Procs : S_RelBatch(p) /\ UNCHANGED <<scanVars, auxVars>>
    \/ \E p \in Procs : S_Relations(p) /\ UNCHANGED <<scanVars, auxVars>>
    \/ \E p \in Procs : S_Sizes(p) /\ UNCHANGED <<scanVars, auxVars>>
    \/ \E p \in Procs : S_Tree(p) /\ UNCHANGED <<scanVars, auxVars>>
    \/ CacheSave /\ UNCHANGED <<scanVars, auxVars>>
    \/ TimerFire /\ UNCHANGED <<scanVars, auxVars>>
    \/ \E t \in Tasks : R_SubStart(t) /\ UNCHANGED <<scanVars, auxVars>>
    \/ \E t \in Tasks : R_SubDone(t) /\ UNCHANGED <<scanVars, auxVars>>
    \/ \E t \in Tasks : R_Finish(t) /\ UNCHANGED <<scanVars, auxVars>>
    \/ CreateFile(u_) /\ UNCHANGED <<scanVars, auxVars>>
    \/ DeleteFile(u_) /\ UNCHANGED <<scanVars, auxVars>>

InitDeep == CtrlIdleOn(DeepFs) /\ sfs = InitFs /\ ScanIdle /\ AuxIdle

SpecDeep == InitDeep /\ [][NextDeep]_vars

\* A disk on which /r/a/s lies MAX_DEPTH levels below /r and holds the
\* directory t: the scan of /r exports s and folds t into its overflow node
DepthFs ==
    [p \in {Root, a_, f1_, s_, t_} |->
        IF p \in DirPaths THEN DirEntry ELSE FileEntry(Rank(p))]

InitDepth == CtrlIdleOn(DepthFs) /\ sfs = InitFs /\ ScanIdle /\ AuxIdle

\* The steps of NextDeep on that disk
SpecDepth == InitDepth /\ [][NextDeep]_vars

\* scan_directory commands for two paths whose cache files load, under the
\* watcher the served request arms
NextHit ==
    \/ \E path \in HitPaths : SD_Start(FreeReq, path, TRUE) /\ UNCHANGED <<scanVars, auxVars>>
    \/ \E q \in Reqs : SD_CacheHit(q) /\ UNCHANGED <<scanVars, auxVars>>
    \/ \E q \in Reqs : SD_Watch(q) /\ UNCHANGED <<scanVars, auxVars>>
    \/ CreateFile(n_) /\ UNCHANGED <<scanVars, auxVars>>
    \/ DeleteFile(n_) /\ UNCHANGED <<scanVars, auxVars>>

(***************************************************************************)
(* coalesce_dirty_dirs on its own: a dirty set, a scan root and a disk.    *)
(* The watched directory may since have been removed or replaced by a      *)
(* file; refresh_incremental (lib.rs 639-642) puts the scan root itself    *)
(* into the dirty set.                                                     *)
(***************************************************************************)
CoUniverse == {Root, a_, f1_, n_, b_, c_}

CoRoots == {Root, a_}

\* Nothing at /r; a file at /r; a file at /r/a
NoDisk == [p \in {} |-> DirEntry]

RootIsFile == [p \in {Root} |-> FileEntry(Rank(f1_))]

AIsFile == [p \in {Root, a_} |-> IF p = a_ THEN FileEntry(Rank(f1_)) ELSE DirEntry]

CoFsFamily ==
    {FsOf(S, {}) : S \in {T \in SUBSET CoUniverse : Closed(T)}} \cup {NoDisk, RootIsFile, AIsFile}

InitCoalesce ==
    /\ fn_in \in [dirty : SUBSET CoUniverse, scan_root : CoRoots, fsys : CoFsFamily]
    /\ fn_out = None

\* lib.rs 378
F_Coalesce ==
    /\ fn_out = None
    /\ fn_out' = Some(coalesce_dirty_dirs(fn_in.dirty, fn_in.scan_root, fn_in.fsys))
    /\ UNCHANGED fn_in

NextCoalesce ==
    F_Coalesce /\ UNCHANGED <<scanVars, ctrlVars, cacheVars, progVars, diffVars, hitVars, hashVars>>

InitCoalesceOnly ==
    /\ InitCoalesce /\ CacheIdle /\ ProgIdle /\ DiffIdle /\ HitIdle /\ HashIdle
    /\ CtrlIdle /\ sfs = InitFs /\ ScanIdle

SpecCoalesce == InitCoalesceOnly /\ [][NextCoalesce]_vars

NextCache ==
    \/ \E P \in CachePaths, T \in CacheTrees, now \in Times :
          C_Save(P, T, now) /\ UNCHANGED <<scanVars, ctrlVars, progVars, diffVars, hitVars, hashVars, fnVars>>
    \/ \E P \in CachePaths : C_Load(P) /\ UNCHANGED <<scanVars, ctrlVars, progVars, diffVars, hitVars, hashVars, fnVars>>

NextProgress ==
    \/ P_Item /\ UNCHANGED <<scanVars, ctrlVars, cacheVars, diffVars, hitVars, hashVars, fnVars>>
    \/ P_WalkEnd /\ UNCHANGED <<scanVars, ctrlVars, cacheVars, diffVars, hitVars, hashVars, fnVars>>
    \/ P_Relations /\ UNCHANGED <<scanVars, ctrlVars, cacheVars, diffVars, hitVars, hashVars, fnVars>>
    \/ P_Sizes /\ UNCHANGED <<scanVars, ctrlVars, cacheVars, diffVars, hitVars, hashVars, fnVars>>
    \/ P_Tree /\ UNCHANGED <<scanVars, ctrlVars, cacheVars, diffVars, hitVars, hashVars, fnVars>>
    \/ P_Complete /\ UNCHANGED <<scanVars, ctrlVars, cacheVars, diffVars, hitVars, hashVars, fnVars>>
    \/ P_Recv /\ UNCHANGED <<scanVars, ctrlVars, cacheVars, diffVars, hitVars, hashVars, fnVars>>
    \/ P_Report /\ UNCHANGED <<scanVars, ctrlVars, cacheVars, diffVars, hitVars, hashVars, fnVars>>
    \/ P_Cancel /\ UNCHANGED <<scanVars, ctrlVars, cacheVars, diffVars, hitVars, hashVars, fnVars>>

NextHash ==
    \/ H_Compare /\ UNCHANGED <<scanVars, ctrlVars, cacheVars, progVars, diffVars, hitVars, fnVars>>
    \/ H_FindDuplicates /\ UNCHANGED <<scanVars, ctrlVars, cacheVars, progVars, diffVars, hitVars, fnVars>>

NextDiff == D_Compare /\ UNCHANGED <<scanVars, ctrlVars, cacheVars, progVars, hitVars, hashVars, fnVars>>

Spec == Init /\ [][Next]_vars

\* scanner.rs 746-758: a directory node before its children are attached
DirEntryNode(p) ==
    [id |-> p, path |-> p, size |-> 0, is_dir |-> TRUE, children |-> <<>>,
     file_count |-> 0, dir_count |-> 0]

\* The trees of /r/a and of /r as a scan of InitFs exports them
TreeOfA == WithStats(DirEntryNode(a_), <<FileLeaf(f1_, [size |-> InitFs[f1_].len])>>)

TreeOfRoot ==
    WithStats(DirEntryNode(Root),
              <<TreeOfA, WithStats(DirEntryNode(b_), <<FileLeaf(g_, [size |-> InitFs[g_].len])>>)>>)

InitHit ==
    /\ CtrlIdle /\ sfs = InitFs /\ ScanIdle /\ CacheIdle /\ ProgIdle /\ DiffIdle /\ HashIdle /\ FnIdle
    /\ precached = [p \in HitPaths |-> IF p = Root THEN Some(TreeOfRoot) ELSE Some(TreeOfA)]

SpecHit == InitHit /\ [][NextHit]_vars

(***************************************************************************)
(* replace_subtree on its own: a tree as the scanner exports it, a target  *)
(* path and the tree of a scan of the target.  /r/ab is a sibling of /r/a  *)
(* whose path string starts with the string of /r/a.                       *)
(***************************************************************************)
ab_ == <<"r", "ab">>

\* scanner.rs 746-758 over exported children: size and counts are their sums
DirOf(p, children) == WithStats(DirEntryNode(p), children)

FileOf(p, size) == FileLeaf(p, [size |-> size])

\* scanner.rs 692 on exported nodes
RECURSIVE SortNodes(_, _, _)
SortNodes(kids, i, sorted) ==
    IF i > Len(kids) THEN sorted
    ELSE SortNodes(kids, i + 1,
             SelectSeq(sorted, LAMBDA n : n.size >= kids[i].size) \o <<kids[i]>>
                 \o SelectSeq(sorted, LAMBDA n : n.size < kids[i].size))

\* /r/a: missing, empty, with a file, with the directories s/t and a file
\* u below them, or with a fourth entry s folded into the overflow node
ReplA ==
    { <<>>,
      <<DirOf(a_, <<>>)>>,
      <<DirOf(a_, <<FileOf(f1_, 5)>>)>>,
      <<DirOf(a_, <<FileOf(f1_, 5), DirOf(s_, <<DirOf(t_, <<FileOf(u_, 4)>>)>>)>>)>>,
      <<DirOf(a_, <<FileOf(f1_, 5), FileOf(n_, 4), FileOf(f2_, 1),
                    OtherNode(a_, [other_size |-> 0, other_file_count |-> 0,
                                   other_dir_count |-> 1])>>)>> }

ReplAB == { <<>>, <<DirOf(ab_, <<>>)>>, <<DirOf(ab_, <<FileOf(Append(ab_, "n"), 2)>>)>> }

ReplB == { <<>>, <<DirOf(b_, <<FileOf(g_, 2)>>)>> }

ReplTrees ==
    {DirOf(Root, SortNodes(a \o ab \o b, 1, <<>>)) : a \in ReplA, ab \in ReplAB, b \in ReplB}

ReplTargets == {Root, a_, ab_, s_, t_, c_}

\* The tree of a scan of the target: empty, with a file, with a directory
NewSubtree(target, k) ==
    CASE k = 1 -> DirOf(target, <<>>)
      [] k = 2 -> DirOf(target, <<FileOf(Append(target, "n"), 4)>>)
      [] OTHER -> DirOf(target, <<DirOf(Append(target, "s"),
                                        <<FileOf(Append(Append(target, "s"), "f1"), 3)>>)>>)

InitReplace ==
    /\ fn_in \in {[root |-> T, target_path |-> g, new_subtree |-> NewSubtree(g, k)] :
                     T \in ReplTrees, g \in ReplTargets, k \in 1..3}
    /\ fn_out = None

\* lib.rs 454
F_Replace ==
    /\ fn_out = None
    /\ fn_out' = Some(replace_subtree(fn_in.root, fn_in.target_path, fn_in.new_subtree))
    /\ UNCHANGED fn_in

NextReplace ==
    F_Replace /\ UNCHANGED <<scanVars, ctrlVars, cacheVars, progVars, diffVars, hitVars, hashVars>>

InitReplaceOnly ==
    /\ InitReplace /\ CacheIdle /\ ProgIdle /\ DiffIdle /\ HitIdle /\ HashIdle
    /\ CtrlIdle /\ sfs = InitFs /\ ScanIdle

SpecReplace == InitReplaceOnly /\ [][NextReplace]_vars

InitCacheOnly == InitCache /\ ProgIdle /\ DiffIdle /\ HitIdle /\ HashIdle /\ FnIdle /\ CtrlIdle /\ sfs = InitFs /\ ScanIdle

SpecCache == InitCacheOnly /\ [][NextCache]_vars

InitProgressOnly ==
    InitProgress /\ CacheIdle /\ DiffIdle /\ HitIdle /\ HashIdle /\ FnIdle /\ CtrlIdle /\ sfs = InitFs /\ ScanIdle

SpecProgress == InitProgressOnly /\ [][NextProgress]_vars

SpecIncr == Init /\ [][NextIncr]_vars

InitDiffOnly == InitDiff /\ CacheIdle /\ ProgIdle /\ HitIdle /\ HashIdle /\ FnIdle /\ CtrlIdle /\ sfs = InitFs /\ ScanIdle

SpecDiff == InitDiffOnly /\ [][NextDiff]_vars

InitHashOnly ==
    InitHash /\ CacheIdle /\ ProgIdle /\ DiffIdle /\ HitIdle /\ FnIdle /\ CtrlIdle /\ sfs = InitFs /\ ScanIdle

SpecHash == InitHashOnly /\ [][NextHash]_vars

RECURSIVE SumLen(_)
SumLen(inos) ==
    IF inos = {} THEN 0
    ELSE LET i == CHOOSE x \in inos : TRUE IN LenOfIno(i) + SumLen(inos \ {i})

RECURSIVE SumStoreSize(_, _)
SumStoreSize(nodes, S) ==
    IF S = {} THEN 0
    ELSE LET p == CHOOSE x \in S : TRUE IN nodes[p].size + SumStoreSize(nodes, S \ {p})

FilesOf(fsys) == {p \in DOMAIN fsys : ~fsys[p].dir}
LinksOf(fsys, ino) == {p \in FilesOf(fsys) : fsys[p].ino = ino}
InosOf(fsys) == {fsys[p].ino : p \in FilesOf(fsys)}
Below(fsys, d) == {p \in DOMAIN fsys : p # d /\ StartsWith(p, d)}

ScanDone == sphase = "done" /\ stree # None

C6_SizeConservation ==
    ScanDone =>
        \A n \in ConcreteNodes(stree[1]) : n.is_dir => n.size = ChildSizeSum(n)

\* A tree with an overflow node of positive size below a concrete directory.
C6_Witness ==
    /\ ScanDone
    /\ \E n \in Subtrees(stree[1]) : IsOther(n) /\ n.size > 0 /\ n.path # Root
    /\ \E n \in Subtrees(stree[1]) : IsOther(n) /\ n.path = Root

(***************************************************************************)
(* C7  For every directory node of the exported tree, file_count is the    *)
(* number of files and dir_count the number of directories transitively    *)
(* contained in the directory on disk, overflow nodes or not.              *)
(***************************************************************************)
C7_RecursiveCounts ==
    ScanDone =>
        \A n \in ConcreteNodes(stree[1]) :
            n.is_dir =>
                /\ n.file_count = Cardinality({p \in Below(sfs, n.path) : ~sfs[p].dir})
                /\ n.dir_count = Cardinality({p \in Below(sfs, n.path) : sfs[p].dir})

(***************************************************************************)
(* C8  Overflow bucketing: a directory with more than MAX_CHILDREN         *)
(* children of distinct sizes, neither depth nor node budget limiting, is  *)
(* exported with exactly its MAX_CHILDREN largest children and one         *)
(* overflow node carrying the size and the file and directory numbers of   *)
(* the other children; a directory with no suppressed child has no         *)
(* overflow node.                                                          *)
(***************************************************************************)
KidsOf(n) == Range(swalk.nodes[n.path].children_paths)
ConcreteKids(n) == {n.children[i].id : i \in {j \in DOMAIN n.children : ~IsOther(n.children[j])}}
OtherKids(n) == {i \in DOMAIN n.children : IsOther(n.children[i])}
DistinctSizes(S) == \A p, q \in S : p # q => swalk.nodes[p].size # swalk.nodes[q].size
Largest(S, k) ==
    {p \in S : Cardinality({q \in S : swalk.nodes[q].size > swalk.nodes[p].size}) < k}
DepthOf(n) == Len(n.path) - Len(Root)
NotLimited(n) ==
    DepthOf(n) < MAX_DEPTH /\ Cardinality(DOMAIN swalk.nodes) <= MAX_TOTAL_NODES

C8_OverflowBucketing ==
    ScanDone =>
        \A n \in ConcreteNodes(stree[1]) :
            n.is_dir =>
                /\ (KidsOf(n) \subseteq ConcreteKids(n)) => OtherKids(n) = {}
                /\ (NotLimited(n) /\ DistinctSizes(KidsOf(n))
                        /\ Cardinality(KidsOf(n)) > MAX_CHILDREN) =>
                      LET rest == KidsOf(n) \ Largest(KidsOf(n), MAX_CHILDREN)
                      IN  /\ ConcreteKids(n) = Largest(KidsOf(n), MAX_CHILDREN)
                          /\ Cardinality(ConcreteKids(n)) = MAX_CHILDREN
                          /\ Len(n.children) = MAX_CHILDREN + 1
                          /\ OtherKids(n) = {MAX_CHILDREN + 1}
                          /\ LET o == n.children[MAX_CHILDREN + 1]
                             IN  /\ o.size = SumStoreSize(swalk.nodes, rest)
                                 /\ o.file_count =
                                      Cardinality({p \in rest : ~swalk.nodes[p].is_dir})
                                 /\ o.dir_count =
                                      Cardinality({p \in rest : swalk.nodes[p].is_dir})
                                 /\ o.children = <<>>

\* The root has four children of distinct sizes; the smallest one, a
\* directory, is in the bucket.
C8_Witness ==
    /\ ScanDone
    /\ NotLimited(stree[1]) /\ DistinctSizes(KidsOf(stree[1]))
    /\ Cardinality(KidsOf(stree[1])) = MAX_CHILDREN + 1
    /\ stree[1].children[MAX_CHILDREN + 1].dir_count = 1
    /\ stree[1].children[MAX_CHILDREN + 1].size > 0

(***************************************************************************)
(* C9  Node budget.  As claimed: the exported tree has at most             *)
(* MAX_TOTAL_NODES nodes, overflow nodes included.                         *)
(***************************************************************************)
C9_AllNodesWithinBudget == ScanDone => NodeCount(stree[1]) <= MAX_TOTAL_NODES

(***************************************************************************)
(* C9 as amended: the exported tree has at most MAX_TOTAL_NODES concrete   *)
(* nodes, which is what the node counter counts; the overflow nodes come   *)
(* on top, at most one per concrete directory.                             *)
(***************************************************************************)
C9_ConcreteNodesWithinBudget ==
    ScanDone =>
        /\ ConcreteCount(stree[1]) <= MAX_TOTAL_NODES
        /\ ConcreteCount(stree[1]) = scount
        /\ \A n \in ConcreteNodes(stree[1]) : Cardinality(OtherKids(n)) <= 1
        /\ \A n \in Subtrees(stree[1]) : IsOther(n) => n.children = <<>>

\* The budget is used up and overflow nodes exceed it.
C9_Witness ==
    /\ ScanDone
    /\ ConcreteCount(stree[1]) = MAX_TOTAL_NODES
    /\ NodeCount(stree[1]) > MAX_TOTAL_NODES
    /\ Cardinality(DOMAIN sfs) > MAX_TOTAL_NODES

(***************************************************************************)
(* C1.  At most one scan body runs at a time: no state has two of the      *)
(* scan_directory commands, refresh_incremental commands and timer-fired   *)
(* refreshes both past their test-and-set of scan_in_progress and before   *)
(* their release of it.                                                    *)
(***************************************************************************)
InBody(p) ==
    IF p \in Reqs THEN req[p].pc \in {"load", "scan"} ELSE ref[p].pc # "idle"

C1_AtMostOneScanBody == Cardinality({p \in Procs : InBody(p)}) <= 1

\* A refresh is inside its body while a scan_directory command was turned away.
C1_Witness ==
    /\ \E t \in Tasks : InBody(t) /\ scanner[t].phase = "walk"
    /\ \E q \in Reqs : req[q].result = <<"err", "busy">>

(***************************************************************************)
(* C2.  Cancellation safety: a scan_directory request into whose scan      *)
(* (before the reset, during the walk, the relations, the sizes or the     *)
(* tree phase) a cancel_scan fell returns null, and the tree of that scan  *)
(* is neither stored in current_tree nor handed to the cache save.         *)
(***************************************************************************)
C2_CancellationSafety ==
    \A q \in Reqs :
        req[q].pc = "done" /\ req[q].cancelled
            => req[q].result = <<"ok", None>> /\ ~req[q].stored

(***************************************************************************)
(* C3.  Incremental equivalence: once no command, refresh, timer or save   *)
(* is pending after a cold scan and watcher-driven refreshes, the current  *)
(* tree equals the tree of a cold scan of the disk as it is, up to the     *)
(* order of equal-size children.                                           *)
(***************************************************************************)
RECURSIVE TreeEquiv(_, _)
TreeEquiv(t, u) ==
    /\ t.id = u.id /\ t.path = u.path /\ t.size = u.size /\ t.is_dir = u.is_dir
    /\ t.file_count = u.file_count /\ t.dir_count = u.dir_count
    /\ Len(t.children) = Len(u.children)
    /\ \A i \in DOMAIN t.children :
          /\ t.children[i].size = u.children[i].size
          /\ \E j \in DOMAIN u.children :
                /\ u.children[j].id = t.children[i].id
                /\ TreeEquiv(t.children[i], u.children[j])

Quiescent ==
    /\ current_tree # None
    /\ \A q \in Reqs : req[q].pc \in {"idle", "done"}
    /\ \A t \in Tasks : ref[t].pc = "idle"
    /\ timers = 0 /\ saves = {}

C3_IncrementalEquivalence ==
    Quiescent =>
        \E ord \in IterOrders :
            /\ ColdScan(fs, Root, ord) # None
            /\ TreeEquiv(current_tree[1], ColdScan(fs, Root, ord)[1])

(***************************************************************************)
(* C4.  Targeted subtree replacement: after a scan of /r with /r/a and     *)
(* /r/b, once a file of n bytes has been added under /r/a under an armed   *)
(* watcher and the refresh that drained its notification has finished,     *)
(* the node of /r/a has exactly one more child than in the scanned tree,   *)
(* root.size is larger by exactly n, and the subtree of /r/b is the same.  *)
(***************************************************************************)
NodeAt(t, path) == CHOOSE x \in Subtrees(t) : x.path = path /\ ~IsOther(x)

AddedUnderA == [p \in DOMAIN InitFs \cup {n_} |-> IF p = n_ THEN FileEntry(Rank(n_)) ELSE InitFs[p]]

Refreshed ==
    /\ Quiescent /\ dirty_paths = {}
    /\ req["q1"].pc = "done" /\ req["q1"].stored

C4_TargetedSubtreeReplacement ==
    Refreshed /\ fs = AddedUnderA =>
        LET base == req["q1"].result[2][1]
            cur == current_tree[1]
        IN  /\ Len(NodeAt(cur, a_).children) = Len(NodeAt(base, a_).children) + 1
            /\ cur.size = base.size + LenOfIno(Rank(n_))
            /\ NodeAt(cur, b_) = NodeAt(base, b_)

\* The file was added once and the refresh has replaced the scanned tree.
C4_Witness ==
    /\ Refreshed /\ fs = AddedUnderA /\ mutations = 1
    /\ current_tree[1] # req["q1"].result[2][1]
    /\ \E i \in DOMAIN NodeAt(current_tree[1], a_).children :
          NodeAt(current_tree[1], a_).children[i].path = n_

(***************************************************************************)
(* C10.  Trigger rule: a refresh walks the whole scan root, once and with  *)
(* no subtree scans, if the coalesced dirty list has more than             *)
(* FULL_RESCAN_LIMIT entries or contains the scan root, and otherwise      *)
(* performs only subtree scans of the dirty directories.                   *)
(***************************************************************************)
C10_TriggerRule ==
    \A t \in Tasks :
        ref[t].pc = "store" =>
            LET d == ref[t].dirty_dirs
                root_path == current_scan_path[1]
            IN  IF Len(d) > FULL_RESCAN_LIMIT \/ root_path \in Range(d)
                THEN ref[t].walks = <<root_path>>
                ELSE Range(ref[t].walks) = Range(d) /\ Len(ref[t].walks) = Len(d)

(***************************************************************************)
(* C10 as the code has it: the root is also walked whole when a dirty      *)
(* directory is not a node of the current tree and its parent is the scan  *)
(* root; otherwise the subtree scans are one per dirty directory that is   *)
(* a node of the tree and one per parent of a dirty directory that is not. *)
(***************************************************************************)
C10_TriggerRuleWithPromotion ==
    \A t \in Tasks :
        ref[t].pc = "store" =>
            LET d == ref[t].dirty_dirs
                root_path == current_scan_path[1]
                InTree(p) == \E x \in Subtrees(current_tree[1]) : x.path = p
                promoted == {IF InTree(p) THEN p ELSE Parent(p) : p \in Range(d)}
            IN  IF \/ Len(d) > FULL_RESCAN_LIMIT
                   \/ root_path \in Range(d)
                   \/ root_path \in promoted
                THEN ref[t].walks = <<root_path>>
                ELSE /\ Range(ref[t].walks) = promoted
                     /\ Len(ref[t].walks) = Cardinality(promoted)

\* More dirty directories than the limit, the root not among them: one walk of the root.
C10_Witness ==
    \E t \in Tasks :
        /\ ref[t].pc = "store" /\ ref[t].full_rescan
        /\ Len(ref[t].dirty_dirs) > FULL_RESCAN_LIMIT
        /\ Root \notin Range(ref[t].dirty_dirs)
        /\ ref[t].walks = <<Root>>

(***************************************************************************)
(* C11.  After a full scan by scan_directory the watcher is armed only     *)
(* after the cache record of the scan has been written: no state has the   *)
(* watcher of a scan path active while the cache save of that scan is      *)
(* still to be done.                                                       *)
(***************************************************************************)
C11_WatcherAfterCacheSave == \A s \in saves : watcher # Some(s.path)

(***************************************************************************)
(* C12.  Among the scan-progress events of one scan, none with             *)
(* is_complete = false comes after the one with is_complete = true.        *)
(***************************************************************************)
C12_NoProgressAfterComplete ==
    \A i, j \in DOMAIN pevents :
        (i < j /\ pevents[i].is_complete) => pevents[j].is_complete

(***************************************************************************)
(* C13.  Debounce: at any time at most one refresh timer is pending, also  *)
(* when a new scan re-arms the watcher while a timer of the previous       *)
(* watcher is still pending.                                               *)
(***************************************************************************)
C13_AtMostOneTimer == timers <= 1

(***************************************************************************)
(* C14.  Busy: a scan_directory command issued while a scan or refresh     *)
(* holds scan_in_progress returns an error and changes nothing: the tree,  *)
(* the scan path, the dirty set, the watcher, the cache, the pending       *)
(* saves, the flag and the running scan are as before.                     *)
(***************************************************************************)
BusyStep ==
    /\ scan_in_progress /\ IsDirOnDisk(fs, Root)
    /\ \E use_cache \in BOOLEAN : SD_Start(FreeReq, Root, use_cache)

C14_BusyNoSideEffects ==
    [][BusyStep =>
          /\ req'[FreeReq].pc = "done" /\ req'[FreeReq].result = <<"err", "busy">>
          /\ UNCHANGED <<current_tree, current_scan_path, dirty_paths, watcher, cache,
                         saves, scan_in_progress, is_cancelled, scanner, ref, timers,
                         incremental_scheduled>>]_vars

\* A command was turned away while the scan of another command was in its walk.
C14_Witness ==
    /\ scan_in_progress
    /\ req["q2"].pc = "done" /\ req["q2"].result = <<"err", "busy">>
    /\ req["q1"].pc = "scan" /\ scanner["q1"].phase = "walk"

(***************************************************************************)
(* C15.  When the scanner returns null for a scan_directory request, the   *)
(* command returns null and not an error, the steps of the request leave   *)
(* the tree, the scan path, the dirty set, the watcher, the cache and the  *)
(* pending saves as they were, and scan_in_progress is released.           *)
(***************************************************************************)
C15_NullScanFrame ==
    [][\A q \in Reqs :
          /\ (req[q].pc = "scan" /\ req'[q].pc = "done" /\ scanner[q].result = None)
                => /\ req'[q].result = <<"ok", None>>
                   /\ ~scan_in_progress'
                   /\ UNCHANGED <<current_tree, current_scan_path, dirty_paths, watcher,
                                  cache, saves>>
          /\ (req[q].pc = "scan" /\ req'[q].pc = "scan" /\ scanner'[q] # scanner[q])
                => UNCHANGED <<current_tree, current_scan_path, dirty_paths, watcher,
                               cache, saves>>
          /\ (req[q].pc # "scan" /\ req'[q].pc = "scan")
                => UNCHANGED <<current_tree, current_scan_path, dirty_paths, watcher,
                               cache, saves>>]_vars

\* A cancelled second scan has returned null; the tree and watcher of the first remain.
C15_Witness ==
    \E q \in Reqs :
        /\ req[q].pc = "done" /\ req[q].result = <<"ok", None>>
        /\ current_tree # None /\ watcher # None /\ ~scan_in_progress

(***************************************************************************)
(* C16.  Cache round trip: a load_from_cache(P) that follows a successful  *)
(* save_to_cache(P, T) returns a record whose root is T and whose          *)
(* scan_path is P; a stored record of another format version makes the     *)
(* load fail.                                                              *)
(***************************************************************************)
C16_CacheRoundTrip ==
    cres.op = "load" =>
        /\ csaved[cres.path] # None
              => /\ cres.result[1] = "ok"
                 /\ cres.result[2].root = csaved[cres.path][1]
                 /\ cres.result[2].scan_path = cres.path
        /\ cfiles[cres.path] = StaleFile(cres.path) => cres.result[1] = "err"

(***************************************************************************)
(* C17.  Cache size guard: a save_to_cache whose serialized record is      *)
(* longer than MAX_CACHE_SIZE returns an error and leaves every cache file *)
(* as it was, so what load_from_cache returned before it still returns.    *)
(***************************************************************************)
SavedBytes(c) == Len(EncScan(CachedScanOf(c.path, c.tree, c.now)))

C17_SizeGuardWritesNothing ==
    [][(cres'.op = "save" /\ SavedBytes(cres') > MAX_CACHE_SIZE)
          => /\ cres'.result[1] = "err"
             /\ cfiles' = cfiles
             /\ \A P \in CachePaths :
                   load_from_cache(cfiles'[P]) = load_from_cache(cfiles[P])]_vars

\* A refused save over a record that was loadable and still is
C17_Witness ==
    /\ cres.op = "save" /\ cres.result[1] = "err"
    /\ SavedBytes(cres) = MAX_CACHE_SIZE + 1
    /\ csaved[cres.path] = Some(EdgeLeaf)
    /\ load_from_cache(cfiles[cres.path])[1] = "ok"
    /\ load_from_cache(cfiles[cres.path])[2].root = EdgeLeaf

(***************************************************************************)
(* C18.  net_size_change of compare_snapshots(T1, T2) is the total size of *)
(* the files of T2 minus the total size of the files of T1.                *)
(***************************************************************************)
RECURSIVE FileTotal(_)
FileTotal(t) ==
    IF ~t.is_dir THEN t.size
    ELSE SumOver([i \in DOMAIN t.children |-> FileTotal(t.children[i])], Len(t.children))

ExampleOld == make_dir("root", <<make_file("a.txt", 100), make_file("b.txt", 200)>>)

ExampleNew ==
    make_dir("root", <<make_file("a.txt", 100), make_file("b.txt", 500), make_file("c.txt", 50)>>)

C18_NetSizeChange ==
    dres # None =>
        /\ dres[1].net_size_change = FileTotal(dnew) - FileTotal(dold)
        /\ (dold = ExampleOld /\ dnew = ExampleNew)
              => /\ dres[1].net_size_change = 350
                 /\ dres[1].added_size = 50
                 /\ dres[1].removed_size = 0

(***************************************************************************)
(* C19.  Deleting the removed paths from the flat map of T1, inserting the *)
(* added entries and setting the changed paths to their new size gives the *)
(* flat map of T2; added, removed, changed and unchanged are pairwise      *)
(* disjoint and cover the keys of both maps.                               *)
(***************************************************************************)
FlatOf(t) ==
    LET m == flatten_tree(t)
    IN  [k \in DOMAIN m |-> [size |-> m[k].size, is_dir |-> m[k].is_dir]]

PathsOf(list) == {list[i].path : i \in DOMAIN list}

EntryAt(list, k) == list[CHOOSE i \in DOMAIN list : list[i].path = k]

ApplyDiff(flat, r) ==
    [k \in (DOMAIN flat \ PathsOf(r.removed)) \cup PathsOf(r.added) |->
        IF k \in PathsOf(r.added)
        THEN [size |-> EntryAt(r.added, k).size, is_dir |-> EntryAt(r.added, k).is_dir]
        ELSE IF k \in PathsOf(r.changed)
        THEN [flat[k] EXCEPT !.size = EntryAt(r.changed, k).new_size]
        ELSE flat[k]]

UnchangedKeys(r) ==
    ((DOMAIN FlatOf(dold)) \cap (DOMAIN FlatOf(dnew))) \ PathsOf(r.changed)

C19_DiffRoundTrip ==
    dres # None =>
        LET r == dres[1]
        IN  /\ ApplyDiff(FlatOf(dold), r) = FlatOf(dnew)
            /\ PathsOf(r.added) \cap PathsOf(r.removed) = {}
            /\ PathsOf(r.added) \cap PathsOf(r.changed) = {}
            /\ PathsOf(r.removed) \cap PathsOf(r.changed) = {}
            /\ UnchangedKeys(r) \cap (PathsOf(r.added) \cup PathsOf(r.removed)) = {}
            /\ r.unchanged_count = Cardinality(UnchangedKeys(r))
            /\ PathsOf(r.added) \cup PathsOf(r.removed) \cup PathsOf(r.changed)
                   \cup UnchangedKeys(r) = (DOMAIN FlatOf(dold)) \cup (DOMAIN FlatOf(dnew))

(***************************************************************************)
(* C20.  compare_snapshots treats a directory like a file, by its size: a  *)
(* path in both trees is listed in changed exactly when its sizes differ   *)
(* and is counted unchanged otherwise; when one file alone changes size,   *)
(* changed holds the file and every ancestor up to the root; a tree        *)
(* compared with itself gives empty lists, unchanged_count equal to its    *)
(* number of nodes and net_size_change 0.                                  *)
(***************************************************************************)
RECURSIVE SnapNodeCount(_)
SnapNodeCount(t) ==
    1 + SumOver([i \in DOMAIN t.children |-> SnapNodeCount(t.children[i])], Len(t.children))

Prefixes(k) == {SubSeq(k, 1, n) : n \in 1..Len(k)}

\* The two trees have the same paths and kinds and differ in the size of
\* exactly the file k, apart from the directory sizes that follow from it
OnlyFileChanged(k) ==
    LET o == FlatOf(dold)
        n == FlatOf(dnew)
    IN  /\ DOMAIN o = DOMAIN n
        /\ \A p \in DOMAIN o : o[p].is_dir = n[p].is_dir
        /\ k \in DOMAIN o /\ ~o[k].is_dir /\ o[k].size # n[k].size
        /\ \A p \in DOMAIN o : (~o[p].is_dir /\ p # k) => o[p].size = n[p].size

C20_DirectoriesBySize ==
    dres # None =>
        LET r == dres[1]
            o == FlatOf(dold)
            n == FlatOf(dnew)
        IN  /\ \A k \in (DOMAIN o) \cap (DOMAIN n) :
                  IF o[k].size = n[k].size
                  THEN k \notin PathsOf(r.changed)
                  ELSE /\ k \in PathsOf(r.changed)
                       /\ EntryAt(r.changed, k).old_size = o[k].size
                       /\ EntryAt(r.changed, k).new_size = n[k].size
                       /\ EntryAt(r.changed, k).size_diff = n[k].size - o[k].size
                       /\ EntryAt(r.changed, k).is_dir = o[k].is_dir
            /\ r.unchanged_count =
                  Cardinality({k \in (DOMAIN o) \cap (DOMAIN n) : o[k].size = n[k].size})
            /\ \A k \in DOMAIN o : OnlyFileChanged(k) => PathsOf(r.changed) = Prefixes(k)
            /\ dold = dnew
                  => /\ r.added = <<>> /\ r.removed = <<>> /\ r.changed = <<>>
                     /\ r.unchanged_count = SnapNodeCount(dold)
                     /\ r.net_size_change = 0

\* The file root/x/y alone changed size: three entries in changed
C20_Witness ==
    /\ dres # None
    /\ OnlyFileChanged(<<"root", "x", "y">>)
    /\ Len(dres[1].changed) = 3
    /\ \E i \in 1..3 : dres[1].changed[i].is_dir /\ dres[1].changed[i].path = <<"root">>

(***************************************************************************)
(* C24.  Every synthetic overflow node of the exported tree has a path     *)
(* ending in /__other__ and no children, so its path is the path of no     *)
(* concrete directory node of the tree.                                    *)
(***************************************************************************)
EndsInOther(p) == p # <<>> /\ p[Len(p)] = OtherName

C24_OverflowPath ==
    ScanDone =>
        \A n \in Subtrees(stree[1]) :
            EndsInOther(n.id) =>
                /\ EndsInOther(n.path)
                /\ n.children = <<>>
                /\ \A m \in Subtrees(stree[1]) :
                      (m.is_dir /\ ~EndsInOther(m.id)) => m.path # n.path

(***************************************************************************)
(* C25.  In every exported tree, the result of a scan and the tree after   *)
(* an incremental refresh, the children of every directory node are in     *)
(* non-increasing order of size.                                           *)
(***************************************************************************)
ChildrenSorted(t) ==
    \A n \in Subtrees(t) :
        \A i, j \in DOMAIN n.children : i < j => n.children[i].size >= n.children[j].size

C25_ChildrenSorted ==
    /\ stree # None => ChildrenSorted(stree[1])
    /\ current_tree # None => ChildrenSorted(current_tree[1])

(***************************************************************************)
(* C26.  The scan lock is always released: whenever a run of               *)
(* perform_incremental_refresh that acquired scan_in_progress returns,     *)
(* scan_in_progress is false.                                              *)
(***************************************************************************)
C26_RefreshReleasesLock ==
    [][\A t \in Tasks :
          (ref[t].pc # "idle" /\ ref'[t].pc = "idle") => ~scan_in_progress']_vars

(***************************************************************************)
(* C27.  Whenever no scan_directory request is in flight, the armed        *)
(* watcher (if any) watches exactly current_scan_path and current_tree is  *)
(* the tree of that path.                                                  *)
(***************************************************************************)
NoRequestInFlight == \A q \in Reqs : req[q].pc \in {"idle", "done"}

C29_NoStrandedChange == (dirty_paths # {} /\ ~scan_in_progress) => timers > 0

(***************************************************************************)
(* C28: promotion: a refresh walks, for every coalesced dirty directory    *)
(* that is not a node of the current tree, the nearest ancestor that is a  *)
(* node of the tree, so every directory it rescans is a node of the tree   *)
(* and the rescanned subtree can be spliced in.                            *)
(***************************************************************************)
NearestNode(tree, dir) ==
    CHOOSE d \in AllPaths \cup {<<>>} :
        /\ StartsWith(dir, d)
        /\ d = <<>> \/ node_exists(tree, d)
        /\ \A e \in AllPaths : (StartsWith(dir, e) /\ node_exists(tree, e)) => Len(e) <= Len(d)

C28_PromotionReachesTree ==
    [][\A t \in Tasks :
          (ref[t].pc = "idle" /\ ref'[t].pc # "idle" /\ current_tree # None
                /\ ~ref'[t].full_rescan) =>
              /\ \A i \in DOMAIN ref'[t].effective :
                    node_exists(current_tree[1], ref'[t].effective[i])
              /\ {ref'[t].effective[i] : i \in DOMAIN ref'[t].effective}
                   = {NearestNode(current_tree[1], ref'[t].dirty_dirs[i]) :
                          i \in DOMAIN ref'[t].dirty_dirs}]_vars

(***************************************************************************)
(* C30: the cache record ends up holding the tree most recently stored in  *)
(* current_tree: once no background save is pending and nothing holds      *)
(* scan_in_progress, the record's tree is current_tree, so the save of a   *)
(* full scan never overwrites the record of a later incremental refresh.   *)
(***************************************************************************)
C30_CacheHoldsCurrentTree ==
    (saves = {} /\ ~scan_in_progress /\ cache # None /\ current_tree # None) =>
        cache[1].root = current_tree[1]

(***************************************************************************)
(* C21: comparator classification: every root-relative path of either tree *)
(* lands in exactly one outcome: left_only, right_only, no output and no   *)
(* count for a directory on both sides, type conflict (counted with the    *)
(* larger of the two sizes), different (unequal length, or equal length    *)
(* with unequal content or an unreadable side), or identical.              *)
(***************************************************************************)
KeysUnder(root) ==
    {Tail(p) : p \in {q \in DOMAIN hdisk : Len(q) > 1 /\ q[1] = root[1]}}

ClassOf(k) ==
    IF k \notin KeysUnder(RightRoot) THEN "left_only"
    ELSE IF k \notin KeysUnder(LeftRoot) THEN "right_only"
    ELSE LET l == hdisk[LeftRoot \o k]
             r == hdisk[RightRoot \o k]
         IN  IF l.is_dir /\ r.is_dir THEN "none"
             ELSE IF l.is_dir # r.is_dir THEN "type_conflict"
             ELSE IF l.readable /\ r.readable /\ l.data = r.data THEN "identical"
             ELSE "different"

KeysOfClass(c) == {k \in KeysUnder(LeftRoot) \cup KeysUnder(RightRoot) : ClassOf(k) = c}

RelativePaths(list) == {list[i].relative_path : i \in DOMAIN list}

RECURSIVE LargerSizes(_)
LargerSizes(keys) ==
    IF keys = {} THEN 0
    ELSE LET k == CHOOSE x \in keys : TRUE
         IN  MaxOf(Len(hdisk[LeftRoot \o k].data), Len(hdisk[RightRoot \o k].data))
               + LargerSizes(keys \ {k})

Compared == cmpres # None /\ cmpres[1] # None

C21_ComparatorClassification ==
    Compared =>
        LET r == cmpres[1][1]
        IN  /\ RelativePaths(r.left_only) = KeysOfClass("left_only")
            /\ Len(r.left_only) = Cardinality(KeysOfClass("left_only"))
            /\ RelativePaths(r.right_only) = KeysOfClass("right_only")
            /\ Len(r.right_only) = Cardinality(KeysOfClass("right_only"))
            /\ RelativePaths(r.different) = KeysOfClass("different")
            /\ Len(r.different) = Cardinality(KeysOfClass("different"))
            /\ r.identical_count = Cardinality(KeysOfClass("identical"))
            /\ r.type_conflict_count = Cardinality(KeysOfClass("type_conflict"))
            /\ r.type_conflict_size = LargerSizes(KeysOfClass("type_conflict"))

C21_Witness ==
    /\ Compared
    /\ cmpres[1][1].type_conflict_count = 1
    /\ cmpres[1][1].type_conflict_size = 3
    /\ cmpres[1][1].left_only # <<>>
    /\ cmpres[1][1].identical_count = 1
    /\ KeysOfClass("none") = {}

(***************************************************************************)
(* C22: two files of equal length above two samples that agree on their    *)
(* first and last sample (equal partial hashes) and differ in the middle   *)
(* are never in one duplicate group, and the comparator lists them as      *)
(* different.                                                              *)
(***************************************************************************)
DifferInMiddleOnly(p, q) ==
    /\ p # q /\ Readable(p) /\ Readable(q)
    /\ LET a == hdisk[p].data
           b == hdisk[q].data
       IN  /\ Len(a) = Len(b) /\ Len(a) > 2 * HASH_SAMPLE_SIZE /\ a # b
           /\ SubSeq(a, 1, HASH_SAMPLE_SIZE) = SubSeq(b, 1, HASH_SAMPLE_SIZE)
           /\ SubSeq(a, Len(a) - HASH_SAMPLE_SIZE + 1, Len(a))
                = SubSeq(b, Len(b) - HASH_SAMPLE_SIZE + 1, Len(b))

Searched == dupres # None /\ dupres[1] # None

GroupPaths(g) == {g.files[j].path : j \in DOMAIN g.files}

C22_NoPartialFalsePositive ==
    \A p, q \in DOMAIN hdisk :
        DifferInMiddleOnly(p, q) =>
            /\ Searched =>
                  \A i \in DOMAIN dupres[1][1].groups :
                      ~({p, q} \subseteq GroupPaths(dupres[1][1].groups[i]))
            /\ (Compared /\ p[1] = "L" /\ q[1] = "R" /\ Tail(p) = Tail(q)) =>
                  Tail(p) \in RelativePaths(cmpres[1][1].different)

C22_Witness ==
    /\ Compared /\ Searched
    /\ DifferInMiddleOnly(<<"L", "x">>, <<"R", "x">>)
    /\ duplicates_compute_partial_hash(<<"L", "x">>, 3) # None
    /\ duplicates_compute_partial_hash(<<"L", "x">>, 3)
         = duplicates_compute_partial_hash(<<"R", "x">>, 3)
    /\ compute_partial_hash(<<"L", "x">>, 3) = compute_partial_hash(<<"R", "x">>, 3)
    /\ dupres[1][1].partial_collision_groups = 1
    /\ dupres[1][1].groups = <<>>
    /\ <<"x">> \in RelativePaths(cmpres[1][1].different)

(***************************************************************************)
(* C23: every duplicate group has at least 2 files, all of the group's     *)
(* size and of equal full content hash; no path is in two groups;          *)
(* wasted_bytes = size * (count - 1); the groups are in non-increasing     *)
(* order of wasted_bytes; total_wasted_bytes is the sum over the groups.   *)
(***************************************************************************)
C23_DuplicateGroups ==
    Searched =>
        LET d == dupres[1][1]
            G == d.groups
        IN  /\ \A i \in DOMAIN G :
                  /\ Len(G[i].files) >= 2
                  /\ Cardinality(GroupPaths(G[i])) = Len(G[i].files)
                  /\ \A p \in GroupPaths(G[i]) :
                        /\ p \in DOMAIN hdisk /\ ~hdisk[p].is_dir
                        /\ Len(hdisk[p].data) = G[i].size
                        /\ compute_full_hash(p) # None
                  /\ \A p, q \in GroupPaths(G[i]) :
                        compute_full_hash(p) = compute_full_hash(q)
                  /\ G[i].wasted_bytes = G[i].size * (Len(G[i].files) - 1)
            /\ \A i, j \in DOMAIN G : i # j => GroupPaths(G[i]) \cap GroupPaths(G[j]) = {}
            /\ \A i, j \in DOMAIN G : i < j => G[i].wasted_bytes >= G[j].wasted_bytes
            /\ d.total_wasted_bytes = SumOver([i \in DOMAIN G |-> G[i].wasted_bytes], Len(G))

C23_Witness ==
    /\ Searched
    /\ Len(dupres[1][1].groups) = 2
    /\ dupres[1][1].groups[1].wasted_bytes = 3
    /\ dupres[1][1].groups[2].wasted_bytes = 1
    /\ dupres[1][1].full_hash_files = 2
    /\ dupres[1][1].total_wasted_bytes = 4

(***************************************************************************)
(* C31.  Every directory returned by coalesce_dirty_dirs is the scan root  *)
(* or a descendant of it, for every dirty set and every state of the disk, *)
(* also when a dirty path is the scan root itself and the root is gone or  *)
(* is a file.                                                              *)
(***************************************************************************)
Coalesced == fn_out # None /\ fn_in # None /\ "dirty" \in DOMAIN fn_in

C31_CoalescedWithinRoot ==
    Coalesced => \A i \in DOMAIN fn_out[1] : StartsWith(fn_out[1][i], fn_in.scan_root)

(***************************************************************************)
(* C36.  coalesce_dirty_dirs returns a list without duplicates in which no *)
(* element is a descendant of another, and the list covers the input: for  *)
(* every dirty path inside the scan root, its dirty directory (the path    *)
(* itself if it is a directory on disk, otherwise its parent) is equal to  *)
(* or a descendant of some returned element.                               *)
(***************************************************************************)
C36_CoalesceAntichainCover ==
    Coalesced =>
        LET out == fn_out[1]
        IN  /\ \A i, j \in DOMAIN out : i # j => ~StartsWith(out[i], out[j])
            /\ \A p \in fn_in.dirty :
                  StartsWith(p, fn_in.scan_root) =>
                      \E i \in DOMAIN out : StartsWith(DirtyDirOf(fn_in.fsys, p), out[i])

\* A directory, a removed file below it and a second directory are dirty:
\* the first two give one element, the third another.
C36_Witness ==
    /\ Coalesced
    /\ fn_in.scan_root = Root /\ fn_in.dirty = {a_, n_, c_}
    /\ fn_in.fsys = FsOf({Root, a_, f1_, b_, c_}, {})
    /\ fn_out[1] = <<a_, c_>>

(***************************************************************************)
(* C32.  No change notification is lost by a refresh: every dirty path a   *)
(* refresh drained from the dirty set is covered by a rescan of that       *)
(* refresh that returned a tree, or is in the dirty set again when the     *)
(* refresh ends, also when a rescan returned null because cancel_scan was  *)
(* issued during the refresh.                                              *)
(***************************************************************************)
RefreshEnds(t) == ref[t].pc = "store" /\ ref'[t].pc = "idle"

C32_NoNotificationLost ==
    [][\A t \in Tasks :
          RefreshEnds(t) =>
              \A p \in ref[t].drained :
                  \/ \E d \in ref[t].scanned : StartsWith(p, d)
                  \/ p \in dirty_paths']_vars

(***************************************************************************)
(* C33.  Depth cap: in the current tree, after any sequence of full scans  *)
(* and targeted subtree replacements, no concrete node lies more than      *)
(* MAX_DEPTH levels below the root of the tree.                            *)
(***************************************************************************)
LevelsBelowRoot(tree, n) == Len(n.path) - Len(tree.path)

C33_DepthCap ==
    current_tree # None =>
        \A n \in ConcreteNodes(current_tree[1]) :
            LevelsBelowRoot(current_tree[1], n) <= MAX_DEPTH

(***************************************************************************)
(* C34.  A refresh whose timer fires, or whose refresh_incremental command *)
(* arrives, while another scan holds scan_in_progress is dropped without   *)
(* draining: the paths the watcher inserted stay in the dirty set (the     *)
(* command adds the scan root to them), current_tree is unchanged and no   *)
(* incremental-status or scan-incremental event is emitted.                *)
(***************************************************************************)
RefreshWhileBusy == scan_in_progress /\ (TimerFire \/ RefreshCmd)

C34_BusyRefreshDropped ==
    [][RefreshWhileBusy =>
          /\ dirty_paths \subseteq dirty_paths'
          /\ dirty_paths' \subseteq dirty_paths \cup Range(current_scan_path)
          /\ emitted' = <<>>
          /\ UNCHANGED <<current_tree, scan_in_progress, ref, scanner, cache>>]_vars

\* The timer of the notification for /r/a/n has fired while a second
\* scan_directory was scanning: the path is still in the dirty set.
C34_Witness ==
    /\ scan_in_progress /\ \E q \in Reqs : req[q].pc = "scan"
    /\ n_ \in dirty_paths /\ timers = 0 /\ ~incremental_scheduled
    /\ current_tree # None /\ emitted = <<>>

(***************************************************************************)
(* C35.  The full_rescan field of the incremental-status events of a       *)
(* refresh is true exactly when that refresh walks the whole scan root,    *)
(* also when the root is reached only by promoting a dirty directory that  *)
(* is missing from the tree to its parent, and when no current tree        *)
(* exists.                                                                 *)
(***************************************************************************)
RefreshBegins(t) == ref[t].pc = "idle" /\ ref'[t].pc # "idle"

StatusFlags(events) ==
    {events[i].full_rescan : i \in {j \in DOMAIN events : events[j].event = "incremental-status"}}

C35_FullRescanFlag ==
    [][\A t \in Tasks :
          /\ RefreshBegins(t) => StatusFlags(emitted') = {ref'[t].pc = "full"}
          /\ RefreshEnds(t) =>
                StatusFlags(emitted') \subseteq {current_scan_path[1] \in Range(ref[t].walks)}]_vars

(***************************************************************************)
(* C37.  replace_subtree(root, target, new): the node whose path equals    *)
(* target is replaced by new; every node that is neither that node nor one *)
(* of its ancestors is unchanged (a sibling whose path string is a prefix  *)
(* of target, /r/a for the target /r/ab, is not touched); the size,        *)
(* file_count and dir_count of every ancestor are the values recomputed    *)
(* from its children; and if no node has the path target the tree is       *)
(* returned unchanged.                                                     *)
(***************************************************************************)
Replaced == fn_out # None /\ fn_in # None /\ "target_path" \in DOMAIN fn_in

NodeById(tree, id) == CHOOSE n \in Subtrees(tree) : n.id = id

\* The nodes above the target: their ids are proper prefixes of it
AncestorIds(tree, target) ==
    {n.id : n \in {m \in Subtrees(tree) : m.id # target /\ StartsWith(target, m.id)}}

C37_ReplaceSubtreeFrame ==
    Replaced =>
        LET old == fn_in.root
            target == fn_in.target_path
            new == fn_in.new_subtree
            out == fn_out[1]
        IN  IF \A n \in Subtrees(old) : n.path # target
            THEN out = old
            ELSE /\ {n \in ConcreteNodes(out) : n.path = target} = {new}
                 /\ \A a \in AncestorIds(old, target) :
                       /\ \E n \in Subtrees(out) : n.id = a
                       /\ LET o == NodeById(old, a)
                              r == NodeById(out, a)
                          IN  /\ r.id = o.id /\ r.path = o.path /\ r.is_dir = o.is_dir
                              /\ Len(r.children) = Len(o.children)
                              /\ \A i \in DOMAIN o.children :
                                    /\ r.children[i].id = o.children[i].id
                                    /\ ~StartsWith(target, o.children[i].id)
                                          => r.children[i] = o.children[i]
                              /\ r.size = ChildSizeSum(r)
                              /\ r.file_count = CountFiles(r.children)
                              /\ r.dir_count = CountDirs(r.children)

\* /r/ab is replaced next to /r/a, which holds two levels of directories and
\* is left as it was; the size of /r is recomputed.
C37_Witness ==
    /\ Replaced
    /\ fn_in.target_path = ab_ /\ fn_in.new_subtree = NewSubtree(ab_, 2)
    /\ \E i \in DOMAIN fn_in.root.children : fn_in.root.children[i].path = ab_
    /\ \E i \in DOMAIN fn_in.root.children :
          /\ fn_in.root.children[i].path = a_
          /\ Len(fn_in.root.children[i].children) = 2
          /\ fn_out[1].children[i] = fn_in.root.children[i]
    /\ fn_out[1].size = fn_in.root.size + 4

====
